---- MODULE Spec2Model ----
\* Upload service of backend/internal: the HTTP operations init, put_chunk,
\* finalize, abort and status (internal/api/handler.go, package upload) over the
\* PostgreSQL store (internal/store/postgres.go) and the scratch store (package
\* temp).  Every request runs in its own goroutine: a request is modelled as a
\* process whose steps are its round trips to the shared state, the metadata
\* store and the scratch directory.  A step's local computation (the checks
\* between two round trips) belongs to the step that precedes it.
EXTENDS Integers, Sequences, FiniteSets, TLC

\* ---------------------------------------------------------------- bounds
\* Number of requests that can be in flight at once.
NumProcs == 2
\* UPLOAD_MAX_SIZE, UPLOAD_CHUNK_SIZE and UPLOAD_MAX_CHUNK_SIZE as set in the
\* environment, scaled down to a few bytes.
EnvMaxUploadBytes == 2
EnvChunkSizeBytes == 1
EnvMaxChunkSizeBytes == 1
\* UPLOAD_RELEASE_MAX_BYTES and UPLOAD_LFS_THRESHOLD, scaled down.
EnvReleaseMaxBytes == 1
EnvLFSThresholdBytes == 1
\* Request bodies: body b has b bytes.
NumPayloads == 2
\* Largest X-Chunk-Index a client sends (the smallest is -1).
MaxChunkIndex == 1
\* Rows the files table may hold (caps the number of finalize runs).
MaxFiles == 2
\* Requests that may go in flight while another request is in flight.
MaxOverlaps == 1
\* The most chunks an upload of the legacy service has.
LegacyMaxChunks == 3
\* The largest chunk body of the legacy service, in bytes.
LegacyMaxChunkBytes == 2
\* The chunks of the file the browser uploads.
UploaderTotalChunks == 2
\* options.maxRetries of the ChunkedUploader.
MaxRetries == 1
\* The calls of resume() on one session.
MaxResumes == 2
\* The files the user adds to the upload queue.
NumQueued == 3
\* options.maxConcurrent when the caller gives none.
maxConcurrent == 1

Procs == 1..NumProcs
UploadIDs == {"u1"}
Users == {"alice", "bob"}
Payloads == 1..NumPayloads
ChunkIndexes == (-1)..MaxChunkIndex

Null == "null"
NoUpload == [status |-> "none"]

Terminal == {"completed", "aborted", "failed"}
NonTerminal == {"pending", "in_progress", "processing"}

\* ------------------------------------------------------------ pure helpers
\* len(content) and hex(sha256(content)) of a request body.  The digest is kept
\* symbolic: distinct bodies have distinct digests.
SizeOf(b) == b
Sha256(b) == <<"sha256", b>>
\* An absent X-Chunk-Checksum header, and the headers a client may send.
NoChecksum == <<>>
\* Timestamps are kept symbolic, named after the event that read the clock:
\* now() of the LinkFile statement that linked file f, and time.Now() of the
\* Finalize call that returned file f.  A nil time is the empty tuple.
NoTime == <<>>
LinkedAt(f) == <<"linked", f>>
ReturnedAt(f) == <<"returned", f>>
Checksums == {NoChecksum} \cup {Sha256(b) : b \in Payloads}

\* Defaults of package config.  Sizes are counted in units of 1 KiB, which
\* keeps 10 GiB within the integers of the model checker.
MiB == 1024
defaultChunkSizeBytes == 25 * MiB
defaultMaxChunkSizeBytes == 50 * MiB
defaultMaxUploadBytes == 10 * 1024 * MiB
defaultReleaseMaxBytes == 2 * 1024 * MiB
defaultLFSThresholdBytes == 1024 * MiB

\* An environment variable is <<v>> when it is set to a value that parses as v
\* and <<>> when it is unset, blank or does not parse.
Unset == <<>>
parseInt64(val, fallback) == IF val = Unset THEN fallback ELSE val[1]
parseBool(val, fallback) == IF val = Unset THEN fallback ELSE val[1]

\* The environment the service is started in: the sizes scaled down to a few
\* bytes and the two feature flags left to their defaults.
Env ==
    [UPLOAD_CHUNK_SIZE |-> <<EnvChunkSizeBytes>>,
     UPLOAD_MAX_CHUNK_SIZE |-> <<EnvMaxChunkSizeBytes>>,
     UPLOAD_MAX_SIZE |-> <<EnvMaxUploadBytes>>,
     UPLOAD_RELEASE_MAX_BYTES |-> <<EnvReleaseMaxBytes>>,
     UPLOAD_LFS_THRESHOLD |-> <<EnvLFSThresholdBytes>>,
     UPLOAD_ENABLE_RELEASE_ASSETS |-> Unset,
     UPLOAD_ENABLE_GIT_LFS |-> Unset,
     UPLOAD_SERVICE_API_KEY |-> "key"]

\* Environments with sizes of production scale: each variable unset or set to a
\* value on either side of its default.
Environments ==
    [UPLOAD_CHUNK_SIZE : {Unset, <<0>>, <<MiB \div 2>>, <<100 * MiB>>},
     UPLOAD_MAX_CHUNK_SIZE : {Unset, <<MiB>>},
     UPLOAD_MAX_SIZE : {Unset, <<30 * MiB>>},
     UPLOAD_RELEASE_MAX_BYTES : {Unset, <<512 * MiB>>},
     UPLOAD_LFS_THRESHOLD : {Unset, <<3 * 1024 * MiB>>},
     UPLOAD_ENABLE_RELEASE_ASSETS : {Unset, <<TRUE>>, <<FALSE>>},
     UPLOAD_ENABLE_GIT_LFS : {Unset, <<TRUE>>, <<FALSE>>},
     UPLOAD_SERVICE_API_KEY : {"key"}]

\* config.Load: every variable parsed with its default as fallback; then a
\* non-positive chunk size falls back to the default, and the maximum chunk size
\* is raised to the default chunk size.
Load(env) ==
    LET chunk == parseInt64(env.UPLOAD_CHUNK_SIZE, defaultChunkSizeBytes)
        maxChunk == parseInt64(env.UPLOAD_MAX_CHUNK_SIZE, defaultMaxChunkSizeBytes)
        dflt == IF chunk <= 0 THEN defaultChunkSizeBytes ELSE chunk
    IN  [DefaultChunkSizeBytes |-> dflt,
         MaxChunkSizeBytes |-> IF maxChunk < dflt THEN dflt ELSE maxChunk,
         MaxUploadBytes |-> parseInt64(env.UPLOAD_MAX_SIZE, defaultMaxUploadBytes),
         ReleaseMaxBytes |-> parseInt64(env.UPLOAD_RELEASE_MAX_BYTES, defaultReleaseMaxBytes),
         LFSThresholdBytes |-> parseInt64(env.UPLOAD_LFS_THRESHOLD, defaultLFSThresholdBytes),
         EnableReleaseAssets |-> parseBool(env.UPLOAD_ENABLE_RELEASE_ASSETS, TRUE),
         EnableGitLFS |-> parseBool(env.UPLOAD_ENABLE_GIT_LFS, FALSE),
         APIKey |-> env.UPLOAD_SERVICE_API_KEY]

\* X-API-Key and X-User-Id headers a client may send; the empty string is an
\* absent header, and the user names stand for well-formed uuids.
APIKeys == {"", "key", "wrong"}
UserIDHeaders == {"", "not-a-uuid", "alice", "bob"}

\* A wrapper that takes any key that is not empty.
withAuth_AnyKey(c, apiKey, userIDHeader) ==
    IF apiKey = "" THEN "invalid api key"
    ELSE IF userIDHeader = "" THEN "missing user id"
    ELSE IF userIDHeader \notin {"alice", "bob"} THEN "invalid user id"
    ELSE "ok"

\* Handler.withAuth: the error it answers 401 with, or "ok" when it calls the
\* handler with the parsed user id.
withAuth(c, apiKey, userIDHeader) ==
    IF apiKey = "" \/ apiKey # c.APIKey THEN "invalid api key"
    ELSE IF userIDHeader = "" THEN "missing user id"
    ELSE IF userIDHeader \notin {"alice", "bob"} THEN "invalid user id"
    ELSE "ok"

\* The declared sizes a client sends to a service configured as c: zero and the
\* sizes at and next to each limit of the configuration.
InitSizes(c) ==
    {0} \cup {l + d : l \in {c.DefaultChunkSizeBytes, c.MaxChunkSizeBytes, c.MaxUploadBytes,
                             c.ReleaseMaxBytes, c.LFSThresholdBytes},
                      d \in {-1, 0, 1}}

\* InitUpload's chunk size for a declared size.
ChunkSizeFor(c, size) ==
    LET c1 == IF size < c.DefaultChunkSizeBytes THEN size ELSE c.DefaultChunkSizeBytes
        c2 == IF c1 > c.MaxChunkSizeBytes THEN c.MaxChunkSizeBytes ELSE c1
    IN  IF c2 = 0 THEN c.DefaultChunkSizeBytes ELSE c2

\* InitUpload's chunk count: integer division, plus one for a remainder.
TotalChunksFor(c, size) ==
    LET cs == ChunkSizeFor(c, size)
    IN  (size \div cs) + (IF size % cs # 0 THEN 1 ELSE 0)

\* Service.pickStrategy.
pickStrategy(c, size) ==
    IF c.EnableGitLFS /\ size <= c.LFSThresholdBytes THEN "git_lfs"
    ELSE IF c.EnableReleaseAssets /\ size <= c.ReleaseMaxBytes THEN "release_asset"
    ELSE "repo_chunks"

\* Sum of f[i] over the finite set S of integers.
RECURSIVE SumOver(_, _)
SumOver(f, S) ==
    IF S = {} THEN 0
    ELSE LET i == CHOOSE x \in S : TRUE IN f[i] + SumOver(f, S \ {i})

\* ------------------------------------------------------------------ state
VARIABLES
    cfg,        \* the loaded configuration
    uploads,    \* table uploads: id -> row, or NoUpload
    chunks,     \* table upload_chunks: id -> (chunk_index -> row)
    files,      \* table files: sequence of rows, the file id is the position
    usage,      \* table user_storage_usage: user -> [bytes, count]
    scratch,    \* scratch directory: id -> [exists, partial, chunk, assembled]
    remote,     \* remote repository: id -> [chunks, manifest, release, asset]
    pc,         \* per request process: where the handler stands
    loc,        \* per request process: the handler's local variables
    resp,       \* the HTTP response written by the last step, if it wrote one
    accepted,   \* history: id -> (index -> number of successful advances)
    resuming,   \* the upload the resuming client has taken over, or Null
    overlaps,   \* history: requests that went in flight beside another one
    \* the legacy any-order service (UploadHandler and its db.Client)
    dbUpload,   \* the upload's row in table uploads
    dbChunks,   \* table upload_chunks: chunk_index -> record
    handler,    \* per request: where UploadChunk stands, and its locals
    response,   \* the response the legacy service sent last
    \* the browser's ChunkedUploader
    session,    \* the UploadSession of the file being uploaded
    run,        \* the upload() and the resume() call: where each stands
    onError,    \* history: the number of calls of options.onError
    \* the useChunkedUpload hook
    uploadQueue,    \* uploadQueueRef: the files waiting
    activeUploads,  \* activeUploadsRef: the ids that hold a slot
    items           \* per file: its entry in the uploads list, and its upload() call

\* The state of the three programs beside the upload service.
legacyVars == <<dbUpload, dbChunks, handler, response>>
uploaderVars == <<session, run, onError>>
hookVars == <<uploadQueue, activeUploads, items>>
elsewhere == <<legacyVars, uploaderVars, hookVars>>

serviceVars == <<cfg, uploads, chunks, files, usage, scratch, remote, pc, loc, resp,
                 accepted, resuming, overlaps>>

vars == <<serviceVars, elsewhere>>

\* History kept with a request that runs alone: the upload's row, chunk rows and
\* scratch directory as they were when the request arrived.
NoSeen == [u |-> NoUpload, rows |-> <<>>, dir |-> [exists |-> FALSE]]
NoLoc == [id |-> Null, idx |-> 0, body |-> 0, list |-> <<>>, file |-> 0, solo |-> FALSE,
          seen |-> NoSeen, fd |-> "none", calls |-> <<>>, err |-> "none"]
NoResp == [op |-> "none", id |-> Null, code |-> 0, kind |-> "none",
           idx |-> 0, next |-> 0, done |-> FALSE, file |-> 0,
           status |-> "none", bytes |-> 0, at |-> <<>>, solo |-> FALSE]

EmptyScratch == [exists |-> FALSE, partial |-> <<>>, chunk |-> <<>>, assembled |-> FALSE]
EmptyRemote == [chunks |-> {}, manifest |-> FALSE, release |-> FALSE, asset |-> FALSE]

Idle(p) == pc[p] = "idle"
\* An arriving request takes the lowest free process.
Free(p) == Idle(p) /\ \A q \in Procs : q < p => ~Idle(q)
OthersIdle(p) == \A q \in Procs \ {p} : Idle(q)

\* A request goes in flight (its handler has further steps to take): beside
\* another request only while the bound on overlapping requests allows it.
MayEnter(p) == OthersIdle(p) \/ overlaps < MaxOverlaps
Entered(p) == IF OthersIdle(p) THEN overlaps ELSE overlaps + 1

\* A request that arrives while others are in flight ends their running alone.
Arrive(p) ==
    [q \in Procs |-> IF q # p /\ ~Idle(q)
                     THEN [loc[q] EXCEPT !.solo = FALSE, !.seen = NoSeen] ELSE loc[q]]

\* The history a request takes along when it goes in flight.
Seen(p, id) ==
    IF OthersIdle(p) THEN [u |-> uploads[id], rows |-> chunks[id], dir |-> scratch[id]]
    ELSE NoSeen

\* The state after NewService with the configuration c.
Started(c) ==
    /\ cfg = c
    /\ uploads = [u \in UploadIDs |-> NoUpload]
    /\ chunks = [u \in UploadIDs |-> <<>>]
    /\ files = <<>>
    /\ usage = [u \in Users |-> [bytes |-> 0, count |-> 0]]
    /\ scratch = [u \in UploadIDs |-> EmptyScratch]
    /\ remote = [u \in UploadIDs |-> EmptyRemote]
    /\ pc = [p \in Procs |-> "idle"]
    /\ loc = [p \in Procs |-> NoLoc]
    /\ resp = NoResp
    /\ accepted = [u \in UploadIDs |-> [i \in ChunkIndexes |-> 0]]
    /\ resuming = Null
    /\ overlaps = 0

\* No legacy upload, no browser session and no queued file.
NoRequest == [pc |-> "idle", idx |-> 0, size |-> 0, chunksUploaded |-> 0, bytesUploaded |-> 0]
NoResponse == [op |-> "none", code |-> 0, next |-> 0, chunksUploaded |-> 0, missing |-> {}]
LegacyIdle ==
    /\ dbUpload = [status |-> "none"]
    /\ dbChunks = <<>>
    /\ handler = [p \in Procs |-> NoRequest]
    /\ response = NoResponse

\* The two asynchronous calls that work on a session: upload() and resume().
\* AbortControllers are numbered in the order they are made; signal is the one
\* uploadChunks took from the session when it started, aborted the set of those
\* whose abort() was called, held whether the sessions map holds the session.
Runs == {"upload", "resume"}
NoRun == [pc |-> "idle", chunkIndex |-> 0, attempt |-> 0, signal |-> 0]
NoSession == [status |-> "none", uploadedChunks |-> {}, abortController |-> 0,
              aborted |-> {}, held |-> FALSE]
UploaderIdle ==
    /\ session = NoSession
    /\ run = [r \in Runs |-> NoRun]
    /\ onError = 0

\* The files the user may add, and what the hook keeps for one: the position of
\* the upload() call started for it, whether the uploads list shows it, and
\* under which id (the temp id, or the uploadId that upload() returned).
HookFiles == 1..NumQueued
NoItem == [pc |-> "new", listed |-> FALSE, id |-> "none"]
tempId(f) == <<"temp", f>>
uploadId(f) == <<"real", f>>

HookIdle ==
    /\ uploadQueue = <<>>
    /\ activeUploads = {}
    /\ items = [f \in HookFiles |-> NoItem]

Init == Started(Load(Env)) /\ LegacyIdle /\ UploaderIdle /\ HookIdle

\* A lookup by id alone.
GetUpload_AnyOwner(id, user) == uploads[id]

\* The row GetUpload returns: WHERE id = $1 AND user_id = $2.
GetUpload(id, user) ==
    IF uploads[id] # NoUpload /\ uploads[id].user_id = user THEN uploads[id] ELSE NoUpload

\* One response record; the fields an operation does not send keep NoResp's.
Reply(op, id, code, kind, solo) ==
    [NoResp EXCEPT !.op = op, !.id = id, !.code = code, !.kind = kind, !.solo = solo]

\* While clients are free nothing depends on the response of the last step, and
\* the server's next step is taken once that response has left (ResponseSent);
\* the resuming client keeps its last response, which decides its next request.
Ready == resuming = Null => resp = NoResp

\* Request p stands at the step named.
At(p, step) == Ready /\ pc[p] = step

\* --------------------------------------------------- the resuming client
\* The request the resuming client sends next: status first, then the chunk the
\* last answer named as next, then finalize once that index reaches totalChunks.
ResumeNext(id) ==
    IF resp.op = "none" THEN <<"status", 0>>
    ELSE IF resp.code = 200 /\ resp.op \in {"status", "chunk"}
         THEN IF resp.next < uploads[id].total_chunks
              THEN <<"chunk", resp.next>> ELSE <<"finalize", 0>>
    ELSE <<"stop", 0>>

\* Whether process p may send request op (with chunk index idx) as user now:
\* anything while clients are free; once the resuming client has taken over,
\* only its next request, as the owner, after its previous one was answered.
MaySend(p, op, id, user, idx) ==
    /\ Ready
    /\ Free(p)
    /\ resuming # Null =>
        /\ \A q \in Procs : Idle(q)
        /\ id = resuming
        /\ user = uploads[id].user_id
        /\ ResumeNext(id) = <<op, idx>>

\* Infrastructure faults and corrupted bodies occur only while clients are
\* free: the resuming client's writes all succeed.
MayFail == resuming = Null

\* ------------------------------------------------------------- InitUpload
\* A check that refuses a declared size equal to the maximum.
InitValid_BelowMax(c, named, size) == named /\ size > 0 /\ size < c.MaxUploadBytes

\* InitUpload's checks of the request: a filename, and a size above zero and
\* not above the maximum upload size.
InitValid(c, named, size) == named /\ size > 0 /\ size <= c.MaxUploadBytes

InitUpload(p, user, named, size) ==
    /\ Ready
    /\ Free(p)
    /\ resuming = Null
    /\ loc' = Arrive(p)
    /\ UNCHANGED <<cfg, elsewhere, chunks, files, usage, scratch, remote, pc, accepted, resuming, overlaps>>
    /\ IF ~InitValid(cfg, named, size)
       THEN /\ resp' = Reply("init", Null, 400, "invalid", OthersIdle(p))
            /\ UNCHANGED uploads
       ELSE \E id \in UploadIDs :
            /\ uploads[id] = NoUpload
            /\ uploads' = [uploads EXCEPT ![id] =
                   [status |-> "pending", user_id |-> user, filename |-> "f",
                    strategy |-> pickStrategy(cfg, size),
                    chunk_size |-> ChunkSizeFor(cfg, size),
                    total_chunks |-> TotalChunksFor(cfg, size),
                    size |-> size, received_chunks |-> 0, received_bytes |-> 0,
                    repo_name |-> "repo", manifest_path |-> FALSE,
                    file_id |-> 0, completed_at |-> NoTime, expired |-> FALSE]]
            /\ resp' = [Reply("init", id, 200, "created", OthersIdle(p))
                           EXCEPT !.next = TotalChunksFor(cfg, size), !.bytes = ChunkSizeFor(cfg, size)]

\* -------------------------------------------------------------- GetStatus
GetStatus(p, user, id) ==
    /\ MaySend(p, "status", id, user, 0)
    /\ loc' = Arrive(p)
    /\ UNCHANGED <<cfg, elsewhere, uploads, chunks, files, usage, scratch, remote, pc, accepted, resuming, overlaps>>
    /\ LET u == GetUpload(id, user) IN
       IF u = NoUpload
       THEN resp' = Reply("status", id, 404, "not_found", OthersIdle(p))
       ELSE resp' = [Reply("status", id, 200, "status", OthersIdle(p))
                        EXCEPT !.status = u.status, !.bytes = u.received_bytes,
                               !.idx = u.received_chunks, !.next = u.received_chunks]

\* ------------------------------------------------------------ HandleChunk
\* A decision that lets any index at or above received_chunks through to the
\* write, as a service that takes chunks in any order would.
ChunkDecision_AnyOrder(u, idx) ==
    IF u.status = "completed" THEN "completed"
    ELSE IF u.status = "aborted" THEN "aborted"
    ELSE IF u.status = "failed" THEN "failed"
    ELSE IF idx < u.received_chunks THEN "idempotent"
    ELSE "write"

\* What HandleChunk decides from the row it read, before it touches the body.
ChunkDecision(u, idx) ==
    IF u.status = "completed" THEN "completed"
    ELSE IF u.status = "aborted" THEN "aborted"
    ELSE IF u.status = "failed" THEN "failed"
    ELSE IF idx < u.received_chunks THEN "idempotent"
    ELSE IF idx > u.received_chunks THEN "unexpected_index"
    ELSE "write"

\* A reply that names the index after the replayed chunk as next.
IdempotentNext_AfterChunk(u, idx) == idx + 1

\* NextIndex of the reply to a chunk whose index is below received_chunks.
IdempotentNext(u, idx) == u.received_chunks

\* GetUpload and the checks on status and chunk index.
HandleChunk_Get(p, user, id, idx) ==
    /\ MaySend(p, "chunk", id, user, idx)
    /\ UNCHANGED <<cfg, elsewhere, uploads, chunks, files, usage, scratch, remote, accepted, resuming>>
    /\ LET u == GetUpload(id, user)
           d == IF u = NoUpload THEN "not_found" ELSE ChunkDecision(u, idx)
           r(code) == [Reply("chunk", id, code, d, OthersIdle(p)) EXCEPT !.idx = idx]
       IN
       IF d = "write"
       THEN /\ MayEnter(p)
            /\ overlaps' = Entered(p)
            /\ pc' = [pc EXCEPT ![p] = "chunk_stage"]
            /\ loc' = [Arrive(p) EXCEPT ![p] =
                          [NoLoc EXCEPT !.id = id, !.idx = idx, !.solo = OthersIdle(p),
                                        !.seen = Seen(p, id)]]
            /\ resp' = NoResp
       ELSE /\ UNCHANGED <<pc, overlaps>>
            /\ loc' = Arrive(p)
            /\ resp' =
                 CASE d = "not_found" -> r(404)
                   [] d = "completed" -> [r(200) EXCEPT !.next = u.total_chunks, !.done = TRUE]
                   [] d = "idempotent" ->
                        [r(200) EXCEPT !.next = IdempotentNext(u, idx),
                                       !.done = (u.received_chunks = u.total_chunks)]
                   [] OTHER -> r(400)

\* The content of a scratch file: b for the complete body b of one request, 0
\* for a file that was created or truncated and not written, and -n for n bytes
\* that are not the body of one request.
Empty == 0
Torn(n) == 0 - n
LengthOf(content) == IF content < 0 THEN 0 - content ELSE SizeOf(content)

\* The content of a file after a request has written body from offset 0 over
\* what the file held: the body when it covers the old content, otherwise the
\* body followed by the tail of the old content.
Overwritten(content, body) ==
    IF SizeOf(body) >= LengthOf(content) THEN body ELSE Torn(LengthOf(content))

\* Process p's open file while it copies: "partial" while its inode is linked
\* at the .partial path, "chunk" once another request has renamed that inode to
\* the chunk path, "gone" once the inode is unlinked.  The other requests that
\* hold the inode at path from of chunk idx of upload id now hold it at to.
Relinked(l, p, id, idx, from, to) ==
    [q \in Procs |->
        IF q # p /\ l[q].id = id /\ l[q].idx = idx /\ l[q].fd = from
        THEN [l[q] EXCEPT !.fd = to] ELSE l[q]]

\* The open files of the other requests on upload id after RemoveAll.
Unlinked(l, p, id) ==
    [q \in Procs |->
        IF q # p /\ l[q].id = id /\ l[q].fd # "none"
        THEN [l[q] EXCEPT !.fd = "gone"] ELSE l[q]]

\* temp.Store.WriteChunk: MkdirAll and os.Create of chunk-NNNNN.partial, which
\* truncates the file when it exists.
WriteChunk_Create(p) ==
    /\ At(p, "chunk_stage")
    /\ LET id == loc[p].id IN
       scratch' = [scratch EXCEPT ![id].exists = TRUE,
                                  ![id].partial = (loc[p].idx :> Empty) @@ @]
    /\ pc' = [pc EXCEPT ![p] = "chunk_copy"]
    /\ loc' = [loc EXCEPT ![p].fd = "partial"]
    /\ resp' = NoResp
    /\ UNCHANGED <<cfg, elsewhere, uploads, chunks, files, usage, remote, accepted, resuming, overlaps>>

\* temp.Store.WriteChunk: io.Copy of the request body to the open file and to
\* the hasher, and file.Close.
WriteChunk_Copy(p, body) ==
    /\ At(p, "chunk_copy")
    /\ LET id == loc[p].id
           idx == loc[p].idx
       IN
       scratch' =
          CASE loc[p].fd = "partial" ->
                  [scratch EXCEPT ![id].partial[idx] = Overwritten(@, body)]
            [] loc[p].fd = "chunk" ->
                  [scratch EXCEPT ![id].chunk[idx] = Overwritten(@, body)]
            [] OTHER -> scratch
    /\ pc' = [pc EXCEPT ![p] = "chunk_rename"]
    /\ loc' = [loc EXCEPT ![p].body = body, ![p].fd = "none"]
    /\ resp' = NoResp
    /\ UNCHANGED <<cfg, elsewhere, uploads, chunks, files, usage, remote, accepted, resuming, overlaps>>

\* A function without its entry for k.
Without(f, k) == [i \in DOMAIN f \ {k} |-> f[i]]

\* temp.Store.WriteChunk's os.Rename of the .partial file to the chunk path; it
\* fails when the .partial file is gone, and WriteChunk's error ends the request.
WriteChunk_Rename(p) ==
    /\ At(p, "chunk_rename")
    /\ UNCHANGED <<cfg, elsewhere, uploads, chunks, files, usage, remote, accepted, resuming, overlaps>>
    /\ LET id == loc[p].id
           idx == loc[p].idx
       IN
       IF idx \in DOMAIN scratch[id].partial
       THEN /\ scratch' = [scratch EXCEPT
                              ![id].chunk = (idx :> scratch[id].partial[idx]) @@ @,
                              ![id].partial = Without(@, idx)]
            /\ pc' = [pc EXCEPT ![p] = "chunk_record"]
            /\ loc' = Relinked(Relinked(loc, p, id, idx, "chunk", "gone"),
                               p, id, idx, "partial", "chunk")
            /\ resp' = NoResp
       ELSE /\ UNCHANGED scratch
            /\ pc' = [pc EXCEPT ![p] = "idle"]
            /\ loc' = [loc EXCEPT ![p] = NoLoc]
            /\ resp' = [Reply("chunk", id, 400, "io_error", loc[p].solo) EXCEPT !.idx = idx]

\* The X-Chunk-Checksum header against the digest WriteChunk computed:
\* an empty header passes, otherwise the two must be equal.
ChecksumOk(hint, checksum) == hint = NoChecksum \/ hint = checksum

\* A mismatch branch that returns the error and leaves the chunk file in place.
HandleChunk_Mismatch_KeepsFile(p, hint) ==
    /\ At(p, "chunk_record")
    /\ ~ChecksumOk(hint, Sha256(loc[p].body))
    /\ MayFail
    /\ resp' = [Reply("chunk", loc[p].id, 400, "checksum_mismatch", loc[p].solo)
                   EXCEPT !.idx = loc[p].idx]
    /\ pc' = [pc EXCEPT ![p] = "idle"]
    /\ loc' = [loc EXCEPT ![p] = NoLoc]
    /\ UNCHANGED <<cfg, elsewhere, uploads, chunks, files, usage, scratch, remote, accepted,
                   resuming, overlaps>>

\* The checksum mismatch branch: os.Remove of the chunk path, then the error.
HandleChunk_Mismatch(p, hint) ==
    /\ At(p, "chunk_record")
    /\ ~ChecksumOk(hint, Sha256(loc[p].body))
    /\ MayFail
    /\ LET id == loc[p].id IN
       /\ scratch' = [scratch EXCEPT ![id].chunk = Without(@, loc[p].idx)]
       /\ resp' = [Reply("chunk", id, 400, "checksum_mismatch", loc[p].solo)
                      EXCEPT !.idx = loc[p].idx]
       /\ loc' = [Relinked(loc, p, id, loc[p].idx, "chunk", "gone") EXCEPT ![p] = NoLoc]
    /\ pc' = [pc EXCEPT ![p] = "idle"]
    /\ UNCHANGED <<cfg, elsewhere, uploads, chunks, files, usage, remote, accepted, resuming, overlaps>>

\* PostgresStore.RecordChunk: upsert on (upload_id, chunk_index).
RecordChunk(tbl, id, idx, size, checksum) ==
    [tbl EXCEPT ![id] = (idx :> [size_bytes |-> size, checksum |-> checksum]) @@ @]

\* The checksum passes and the chunk row is upserted.
HandleChunk_Record(p, hint) ==
    /\ At(p, "chunk_record")
    /\ ChecksumOk(hint, Sha256(loc[p].body))
    /\ chunks' = RecordChunk(chunks, loc[p].id, loc[p].idx,
                             SizeOf(loc[p].body), Sha256(loc[p].body))
    /\ pc' = [pc EXCEPT ![p] = "chunk_advance"]
    /\ resp' = NoResp
    /\ UNCHANGED <<cfg, elsewhere, uploads, files, usage, scratch, remote, loc, accepted, resuming, overlaps>>

\* PostgresStore.AdvanceUploadProgress: the WHERE clause of the UPDATE ...
AdvanceMatches(u, chunkIndex) ==
    u.received_chunks = chunkIndex /\ u.status \in {"pending", "in_progress"}

\* An update that counts the chunk and leaves the status as it is.
AdvanceRow_KeepsStatus(u, chunkSize) ==
    [u EXCEPT !.received_chunks = @ + 1,
              !.received_bytes = @ + chunkSize]

\* An update that also stores the size of the chunk as the upload's chunk size.
AdvanceRow_Resizes(u, chunkSize) ==
    [u EXCEPT !.received_chunks = @ + 1,
              !.received_bytes = @ + chunkSize,
              !.status = IF @ = "pending" THEN "in_progress" ELSE @,
              !.chunk_size = chunkSize]

\* ... and its SET clause.
AdvanceRow(u, chunkSize) ==
    [u EXCEPT !.received_chunks = @ + 1,
              !.received_bytes = @ + chunkSize,
              !.status = IF @ = "pending" THEN "in_progress" ELSE @]

\* AdvanceUploadProgress and the reply: no row updated is ErrChunkOutOfOrder.
HandleChunk_Advance(p) ==
    /\ At(p, "chunk_advance")
    /\ LET id == loc[p].id
           idx == loc[p].idx
           u == uploads[id]
       IN
       IF AdvanceMatches(u, idx)
       THEN /\ uploads' = [uploads EXCEPT ![id] = AdvanceRow(u, SizeOf(loc[p].body))]
            /\ accepted' = [accepted EXCEPT ![id][idx] = @ + 1]
            /\ resp' = [Reply("chunk", id, 200, "accepted", loc[p].solo)
                           EXCEPT !.idx = idx, !.next = idx + 1,
                                  !.done = (idx + 1 = u.total_chunks)]
       ELSE /\ UNCHANGED <<uploads, accepted>>
            /\ resp' = [Reply("chunk", id, 409, "out_of_order", loc[p].solo)
                           EXCEPT !.idx = idx]
    /\ pc' = [pc EXCEPT ![p] = "idle"]
    /\ loc' = [loc EXCEPT ![p] = NoLoc]
    /\ UNCHANGED <<cfg, elsewhere, chunks, files, usage, scratch, remote, resuming, overlaps>>

\* -------------------------------------------------------------- Finalize
\* PostgresStore.UpdateUploadStatus: unconditional on the row's current status.
UpdateUploadStatus(tbl, id, status) == [tbl EXCEPT ![id].status = status]

\* PostgresStore.LinkFile.
LinkFile(tbl, id, fileID) ==
    [tbl EXCEPT ![id].file_id = fileID, ![id].status = "completed",
                ![id].completed_at = LinkedAt(fileID)]

\* A listing in descending order of chunk_index.
RECURSIVE ListChunks_Descending(_)
ListChunks_Descending(rows) ==
    IF DOMAIN rows = {} THEN <<>>
    ELSE LET i == CHOOSE x \in DOMAIN rows : \A y \in DOMAIN rows : x >= y
         IN  <<[chunk_index |-> i, size_bytes |-> rows[i].size_bytes,
                checksum |-> rows[i].checksum]>> \o ListChunks_Descending(Without(rows, i))

\* PostgresStore.ListChunks: the upload's chunk rows ORDER BY chunk_index ASC.
RECURSIVE ListChunks(_)
ListChunks(rows) ==
    IF DOMAIN rows = {} THEN <<>>
    ELSE LET i == CHOOSE x \in DOMAIN rows : \A y \in DOMAIN rows : x <= y
         IN  <<[chunk_index |-> i, size_bytes |-> rows[i].size_bytes,
                checksum |-> rows[i].checksum]>> \o ListChunks(Without(rows, i))

\* Completed of the reply for an upload that is already completed: the stored
\* completed_at, or the current time when none is stored.
CompletedTime(u) == IF u.completed_at # NoTime THEN u.completed_at ELSE <<"now">>

\* What Finalize decides from the row it read.
FinalizeDecision(u) ==
    IF u.status = "completed" /\ u.file_id # 0 THEN "already_completed"
    ELSE IF u.received_chunks # u.total_chunks THEN "incomplete"
    ELSE "proceed"

\* Finalize runs that may still insert a file row.
Inserting == {p \in Procs : pc[p] \in {"fin_list", "fin_processing", "fin_put",
              "fin_manifest", "fin_manifest_path", "fin_assemble", "fin_release",
              "fin_asset", "fin_insert"}}

\* Finalize leaves with an error after the step at hand.
FinalizeError(p, code, kind) ==
    /\ pc' = [pc EXCEPT ![p] = "idle"]
    /\ loc' = [loc EXCEPT ![p] = NoLoc]
    /\ resp' = Reply("finalize", loc[p].id, code, kind, loc[p].solo)

\* GetUpload, the reply for an upload that is already completed, and the check
\* that every chunk was received.
Finalize_Get(p, user, id) ==
    /\ MaySend(p, "finalize", id, user, 0)
    /\ Len(files) + Cardinality(Inserting) < MaxFiles
    /\ UNCHANGED <<cfg, elsewhere, uploads, chunks, files, usage, scratch, remote, accepted, resuming>>
    /\ LET u == GetUpload(id, user)
           d == IF u = NoUpload THEN "not_found" ELSE FinalizeDecision(u)
       IN
       IF d = "proceed"
       THEN /\ MayEnter(p)
            /\ overlaps' = Entered(p)
            /\ pc' = [pc EXCEPT ![p] = "fin_list"]
            /\ loc' = [Arrive(p) EXCEPT ![p] =
                          [NoLoc EXCEPT !.id = id, !.solo = OthersIdle(p),
                                        !.seen = Seen(p, id)]]
            /\ resp' = NoResp
       ELSE /\ UNCHANGED <<pc, overlaps>>
            /\ loc' = Arrive(p)
            /\ resp' =
                 CASE d = "not_found" -> Reply("finalize", id, 404, d, OthersIdle(p))
                   [] d = "already_completed" ->
                        [Reply("finalize", id, 200, d, OthersIdle(p))
                            EXCEPT !.file = u.file_id, !.bytes = u.size,
                                   !.at = CompletedTime(u)]
                   [] OTHER -> Reply("finalize", id, 500, d, OthersIdle(p))

\* ListChunks and the check of the number of rows against total_chunks.
Finalize_List(p) ==
    /\ At(p, "fin_list")
    /\ UNCHANGED <<cfg, elsewhere, uploads, chunks, files, usage, scratch, remote, accepted, resuming, overlaps>>
    /\ LET id == loc[p].id
           list == ListChunks(chunks[id])
       IN
       IF Len(list) # uploads[id].total_chunks
       THEN FinalizeError(p, 500, "manifest_incomplete")
       ELSE /\ pc' = [pc EXCEPT ![p] = "fin_processing"]
            /\ loc' = [loc EXCEPT ![p].list = list]
            /\ resp' = NoResp

\* UpdateUploadStatus(processing) and the switch on the strategy.
Finalize_Processing(p) ==
    /\ At(p, "fin_processing")
    /\ uploads' = UpdateUploadStatus(uploads, loc[p].id, "processing")
    /\ pc' = [pc EXCEPT ![p] =
                 IF uploads[loc[p].id].strategy = "release_asset"
                 THEN "fin_assemble" ELSE "fin_put"]
    /\ resp' = NoResp
    /\ UNCHANGED <<cfg, elsewhere, chunks, files, usage, scratch, remote, loc, accepted, resuming, overlaps>>

\* A materializer step returned the error err: on to UpdateUploadStatus(failed).
MaterializeFails(p, err) ==
    /\ pc' = [pc EXCEPT ![p] = "fin_fail"]
    /\ loc' = [loc EXCEPT ![p].list = <<>>, ![p].err = err]
    /\ resp' = NoResp

\* The remote's behaviour during one PutFile: which of the calls, if it is
\* issued, is answered with an error other than unprocessable-entity, either on
\* its first attempt only (transient) or on every attempt (persistent).
NoFault == [call |-> "none", kind |-> "none"]
PutFaults ==
    {NoFault} \cup [call : {"create", "get", "update"}, kind : {"transient", "persistent"}]

\* The remote's answer to the first attempt of a call. A create of a path that
\* exists is answered unprocessable-entity.
Answer(call, exists, fault) ==
    IF fault.call = call THEN "error"
    ELSE IF call = "create" /\ exists THEN "unprocessable"
    ELSE "ok"

\* A PutFile that goes on to GetContents and UpdateFile after any error of
\* CreateFile.
PutFile_UpdateAfterAnyError(exists, fault) ==
    IF Answer("create", exists, fault) = "ok"
    THEN [calls |-> <<"create">>, ok |-> TRUE]
    ELSE IF Answer("get", exists, fault) # "ok"
    THEN [calls |-> <<"create", "get">>, ok |-> FALSE]
    ELSE [calls |-> <<"create", "get", "update">>,
          ok |-> Answer("update", exists, fault) = "ok"]

\* StorageClient.PutFile: CreateFile; when that is answered
\* unprocessable-entity, GetContents for the sha and UpdateFile with it. The
\* calls it issued, and whether it returned a sha (ok) or an error.
PutFile(exists, fault) ==
    IF Answer("create", exists, fault) = "ok"
    THEN [calls |-> <<"create">>, ok |-> TRUE]
    ELSE IF Answer("create", exists, fault) # "unprocessable"
    THEN [calls |-> <<"create">>, ok |-> FALSE]
    ELSE IF Answer("get", exists, fault) # "ok"
    THEN [calls |-> <<"create", "get">>, ok |-> FALSE]
    ELSE [calls |-> <<"create", "get", "update">>,
          ok |-> Answer("update", exists, fault) = "ok"]

\* finalizeRepoChunks, one turn of the loop over the listed chunks: os.ReadFile
\* of the chunk's scratch path and PutFile to the remote chunk path.
FinalizeRepo_PutChunk(p, fault) ==
    /\ At(p, "fin_put")
    /\ fault = NoFault \/ MayFail
    /\ UNCHANGED <<cfg, elsewhere, uploads, chunks, files, usage, scratch, accepted, resuming, overlaps>>
    /\ LET id == loc[p].id
           c == Head(loc[p].list)
           put == PutFile(c.chunk_index \in remote[id].chunks, fault)
       IN
       IF c.chunk_index \notin DOMAIN scratch[id].chunk
       THEN /\ UNCHANGED remote
            /\ MaterializeFails(p, "read_chunk")
       ELSE IF put.ok
       THEN /\ remote' = [remote EXCEPT ![id].chunks = @ \cup {c.chunk_index}]
            /\ pc' = [pc EXCEPT ![p] =
                         IF Len(loc[p].list) = 1 THEN "fin_manifest" ELSE "fin_put"]
            /\ loc' = [loc EXCEPT ![p].list = Tail(@), ![p].calls = put.calls]
            /\ resp' = NoResp
       ELSE /\ UNCHANGED remote
            /\ MaterializeFails(p, "put_chunk")

\* finalizeRepoChunks: buildManifest and PutFile of manifest.json.
FinalizeRepo_PutManifest(p, fault) ==
    /\ At(p, "fin_manifest")
    /\ fault = NoFault \/ MayFail
    /\ UNCHANGED <<cfg, elsewhere, uploads, chunks, files, usage, scratch, accepted, resuming, overlaps>>
    /\ LET put == PutFile(remote[loc[p].id].manifest, fault) IN
       IF put.ok
       THEN /\ remote' = [remote EXCEPT ![loc[p].id].manifest = TRUE]
            /\ pc' = [pc EXCEPT ![p] = "fin_manifest_path"]
            /\ loc' = [loc EXCEPT ![p].calls = put.calls]
            /\ resp' = NoResp
       ELSE /\ UNCHANGED remote
            /\ MaterializeFails(p, "put_manifest")

\* finalizeRepoChunks: UpdateManifestPath.
FinalizeRepo_ManifestPath(p, dbOk) ==
    /\ At(p, "fin_manifest_path")
    /\ (dbOk \/ MayFail)
    /\ UNCHANGED <<cfg, elsewhere, chunks, files, usage, scratch, remote, accepted, resuming, overlaps>>
    /\ IF dbOk
       THEN /\ uploads' = [uploads EXCEPT ![loc[p].id].manifest_path = TRUE]
            /\ pc' = [pc EXCEPT ![p] = "fin_insert"]
            /\ UNCHANGED loc
            /\ resp' = NoResp
       ELSE /\ UNCHANGED uploads
            /\ MaterializeFails(p, "manifest_path")

\* finalizeReleaseAsset: assembleFile creates assembled.bin in the upload's
\* scratch directory and copies every listed chunk file into it.
FinalizeRelease_Assemble(p) ==
    /\ At(p, "fin_assemble")
    /\ UNCHANGED <<cfg, elsewhere, uploads, chunks, files, usage, remote, accepted, resuming, overlaps>>
    /\ LET id == loc[p].id
           listed == {loc[p].list[k].chunk_index : k \in 1..Len(loc[p].list)}
       IN
       /\ scratch' = [scratch EXCEPT ![id].exists = TRUE, ![id].assembled = TRUE]
       /\ IF listed \subseteq DOMAIN scratch[id].chunk
          THEN /\ pc' = [pc EXCEPT ![p] = "fin_release"]
               /\ loc' = [loc EXCEPT ![p].list = <<>>]
               /\ resp' = NoResp
          ELSE MaterializeFails(p, "assemble")

\* finalizeReleaseAsset: EnsureRelease for the tag upload-<id>.
FinalizeRelease_EnsureRelease(p, ok) ==
    /\ At(p, "fin_release")
    /\ ok \/ MayFail
    /\ UNCHANGED <<cfg, elsewhere, uploads, chunks, files, usage, scratch, accepted, resuming, overlaps>>
    /\ IF ok
       THEN /\ remote' = [remote EXCEPT ![loc[p].id].release = TRUE]
            /\ pc' = [pc EXCEPT ![p] = "fin_asset"]
            /\ UNCHANGED loc
            /\ resp' = NoResp
       ELSE /\ UNCHANGED remote
            /\ MaterializeFails(p, "release")

\* finalizeReleaseAsset: UploadReleaseAsset of the assembled file.
FinalizeRelease_UploadAsset(p, ok) ==
    /\ At(p, "fin_asset")
    /\ ok \/ MayFail
    /\ UNCHANGED <<cfg, elsewhere, uploads, chunks, files, usage, scratch, accepted, resuming, overlaps>>
    /\ IF ok /\ scratch[loc[p].id].assembled
       THEN /\ remote' = [remote EXCEPT ![loc[p].id].asset = TRUE]
            /\ pc' = [pc EXCEPT ![p] = "fin_insert"]
            /\ UNCHANGED loc
            /\ resp' = NoResp
       ELSE /\ UNCHANGED remote
            /\ MaterializeFails(p, "asset")

\* A row that records the bytes received instead of the declared size.
FileRow_ReceivedBytes(id, u) ==
    [user_id |-> u.user_id, name |-> u.filename, size_bytes |-> u.received_bytes,
     repo_name |-> u.repo_name, storage_strategy |-> u.strategy, upload_id |-> id]

\* The row InsertFileRecord writes for upload u; upload_id is a history field,
\* the files table has no column for it.
FileRow(id, u) ==
    [user_id |-> u.user_id, name |-> u.filename, size_bytes |-> u.size,
     repo_name |-> u.repo_name, storage_strategy |-> u.strategy, upload_id |-> id]

\* PostgresStore.InsertFileRecord at the end of either materializer.
Finalize_InsertFileRecord(p, dbOk) ==
    /\ At(p, "fin_insert")
    /\ (dbOk \/ MayFail)
    /\ UNCHANGED <<cfg, elsewhere, uploads, chunks, usage, scratch, remote, accepted, resuming, overlaps>>
    /\ IF dbOk
       THEN /\ files' = Append(files, FileRow(loc[p].id, uploads[loc[p].id]))
            /\ pc' = [pc EXCEPT ![p] = "fin_link"]
            /\ loc' = [loc EXCEPT ![p].file = Len(files) + 1]
            /\ resp' = NoResp
       ELSE /\ UNCHANGED files
            /\ MaterializeFails(p, "insert")

\* The materializer returned an error: UpdateUploadStatus(failed), whose own
\* error is dropped, then the error reply.
Finalize_Failed(p, dbOk) ==
    /\ At(p, "fin_fail")
    /\ dbOk \/ MayFail
    /\ uploads' = IF dbOk THEN UpdateUploadStatus(uploads, loc[p].id, "failed") ELSE uploads
    /\ FinalizeError(p, 500, "materialize_failed")
    /\ UNCHANGED <<cfg, elsewhere, chunks, files, usage, scratch, remote, accepted, resuming, overlaps>>

\* LinkFile; its error ends the request.
Finalize_Link(p, dbOk) ==
    /\ At(p, "fin_link")
    /\ dbOk \/ MayFail
    /\ UNCHANGED <<cfg, elsewhere, chunks, files, usage, scratch, remote, accepted, resuming, overlaps>>
    /\ IF dbOk
       THEN /\ uploads' = LinkFile(uploads, loc[p].id, loc[p].file)
            /\ pc' = [pc EXCEPT ![p] = "fin_usage"]
            /\ UNCHANGED loc
            /\ resp' = NoResp
       ELSE /\ UNCHANGED uploads
            /\ FinalizeError(p, 500, "link_failed")

\* UpsertUserStorageUsage; its error ends the request.
Finalize_Usage(p, dbOk) ==
    /\ At(p, "fin_usage")
    /\ dbOk \/ MayFail
    /\ UNCHANGED <<cfg, elsewhere, uploads, chunks, files, scratch, remote, accepted, resuming, overlaps>>
    /\ IF dbOk
       THEN /\ usage' = [usage EXCEPT ![uploads[loc[p].id].user_id] =
                            [bytes |-> @.bytes + uploads[loc[p].id].size,
                             count |-> @.count + 1]]
            /\ pc' = [pc EXCEPT ![p] = "fin_cleanup"]
            /\ UNCHANGED loc
            /\ resp' = NoResp
       ELSE /\ UNCHANGED usage
            /\ FinalizeError(p, 500, "usage_failed")

\* temp.Store.RemoveUpload: os.RemoveAll of the upload's scratch directory.
RemoveUpload(dir, id) == [dir EXCEPT ![id] = EmptyScratch]

\* RemoveUpload, whose error is dropped, and the success reply.
Finalize_Cleanup(p, fsOk) ==
    /\ At(p, "fin_cleanup")
    /\ fsOk \/ MayFail
    /\ scratch' = IF fsOk THEN RemoveUpload(scratch, loc[p].id) ELSE scratch
    /\ pc' = [pc EXCEPT ![p] = "idle"]
    /\ loc' = [(IF fsOk THEN Unlinked(loc, p, loc[p].id) ELSE loc) EXCEPT ![p] = NoLoc]
    /\ resp' = [Reply("finalize", loc[p].id, 200, "finalized", loc[p].solo)
                   EXCEPT !.file = loc[p].file, !.bytes = uploads[loc[p].id].size,
                          !.at = ReturnedAt(loc[p].file)]
    /\ UNCHANGED <<cfg, elsewhere, uploads, chunks, files, usage, remote, accepted, resuming, overlaps>>

\* ------------------------------------------------------------------ Abort
\* GetUpload and the refusal to abort a completed upload.
\* An abort that only takes uploads still accepting chunks.
AbortAllowed_OnlyOpen(u) == u.status \in {"pending", "in_progress"}

\* Service.Abort refuses a completed upload and no other.
AbortAllowed(u) == u.status # "completed"

Abort_Get(p, user, id) ==
    /\ MaySend(p, "abort", id, user, 0)
    /\ UNCHANGED <<cfg, elsewhere, uploads, chunks, files, usage, scratch, remote, accepted, resuming>>
    /\ LET u == GetUpload(id, user) IN
       IF u # NoUpload /\ AbortAllowed(u)
       THEN /\ MayEnter(p)
            /\ overlaps' = Entered(p)
            /\ pc' = [pc EXCEPT ![p] = "abort_status"]
            /\ loc' = [Arrive(p) EXCEPT ![p] =
                          [NoLoc EXCEPT !.id = id, !.solo = OthersIdle(p),
                                        !.seen = Seen(p, id)]]
            /\ resp' = NoResp
       ELSE /\ UNCHANGED <<pc, overlaps>>
            /\ loc' = Arrive(p)
            /\ resp' = IF u = NoUpload
                       THEN Reply("abort", id, 404, "not_found", OthersIdle(p))
                       ELSE Reply("abort", id, 400, "completed", OthersIdle(p))

\* UpdateUploadStatus(aborted).
Abort_Status(p) ==
    /\ At(p, "abort_status")
    /\ uploads' = UpdateUploadStatus(uploads, loc[p].id, "aborted")
    /\ pc' = [pc EXCEPT ![p] = "abort_reset"]
    /\ resp' = NoResp
    /\ UNCHANGED <<cfg, elsewhere, chunks, files, usage, scratch, remote, loc, accepted, resuming, overlaps>>

\* A reset that deletes nothing.
ResetChunks_Keeps(tbl, id) == tbl

\* PostgresStore.ResetChunks: DELETE FROM upload_chunks WHERE upload_id = $1.
ResetChunks(tbl, id) == [tbl EXCEPT ![id] = <<>>]

Abort_Reset(p) ==
    /\ At(p, "abort_reset")
    /\ chunks' = ResetChunks(chunks, loc[p].id)
    /\ pc' = [pc EXCEPT ![p] = "abort_remove"]
    /\ resp' = NoResp
    /\ UNCHANGED <<cfg, elsewhere, uploads, files, usage, scratch, remote, loc, accepted, resuming, overlaps>>

\* RemoveUpload and the reply {status: aborted}.
Abort_Remove(p) ==
    /\ At(p, "abort_remove")
    /\ scratch' = RemoveUpload(scratch, loc[p].id)
    /\ pc' = [pc EXCEPT ![p] = "idle"]
    /\ loc' = [Unlinked(loc, p, loc[p].id) EXCEPT ![p] = NoLoc]
    /\ resp' = Reply("abort", loc[p].id, 200, "aborted", loc[p].solo)
    /\ UNCHANGED <<cfg, elsewhere, uploads, chunks, files, usage, remote, accepted, resuming, overlaps>>

\* --------------------------------------------------------- resumption
\* A client that lost its local state takes over a quiescent upload that is
\* not terminal; from here on it is the only client.
StartResume(id) ==
    /\ Ready
    /\ resuming = Null
    /\ \A p \in Procs : Idle(p)
    /\ uploads[id] # NoUpload
    /\ uploads[id].status \in NonTerminal
    /\ resuming' = id
    /\ resp' = NoResp
    /\ UNCHANGED <<cfg, elsewhere, uploads, chunks, files, usage, scratch, remote, pc, loc, accepted, overlaps>>

\* ------------------------------------------------------------------- Next
\* The response written by the last step has left the server.
ResponseSent ==
    /\ resuming = Null
    /\ resp # NoResp
    /\ resp' = NoResp
    /\ UNCHANGED <<cfg, elsewhere, uploads, chunks, files, usage, scratch, remote, pc, loc,
                   accepted, resuming, overlaps>>

Next ==
    \/ \E p \in Procs, user \in Users, named \in BOOLEAN, size \in InitSizes(cfg) :
          InitUpload(p, user, named, size)
    \/ \E p \in Procs, user \in Users, id \in UploadIDs : GetStatus(p, user, id)
    \/ \E p \in Procs, user \in Users, id \in UploadIDs, idx \in ChunkIndexes :
          HandleChunk_Get(p, user, id, idx)
    \/ \E p \in Procs : WriteChunk_Create(p)
    \/ \E p \in Procs, body \in Payloads : WriteChunk_Copy(p, body)
    \/ \E p \in Procs : WriteChunk_Rename(p)
    \/ \E p \in Procs, hint \in Checksums : HandleChunk_Mismatch(p, hint)
    \/ \E p \in Procs, hint \in Checksums : HandleChunk_Record(p, hint)
    \/ \E p \in Procs : HandleChunk_Advance(p)
    \/ \E p \in Procs, user \in Users, id \in UploadIDs : Finalize_Get(p, user, id)
    \/ \E p \in Procs : Finalize_List(p)
    \/ \E p \in Procs : Finalize_Processing(p)
    \/ \E p \in Procs, fault \in PutFaults : FinalizeRepo_PutChunk(p, fault)
    \/ \E p \in Procs, fault \in PutFaults : FinalizeRepo_PutManifest(p, fault)
    \/ \E p \in Procs, ok \in BOOLEAN : FinalizeRepo_ManifestPath(p, ok)
    \/ \E p \in Procs : FinalizeRelease_Assemble(p)
    \/ \E p \in Procs, ok \in BOOLEAN : FinalizeRelease_EnsureRelease(p, ok)
    \/ \E p \in Procs, ok \in BOOLEAN : FinalizeRelease_UploadAsset(p, ok)
    \/ \E p \in Procs, ok \in BOOLEAN : Finalize_InsertFileRecord(p, ok)
    \/ \E p \in Procs, ok \in BOOLEAN : Finalize_Failed(p, ok)
    \/ \E p \in Procs, ok \in BOOLEAN : Finalize_Link(p, ok)
    \/ \E p \in Procs, ok \in BOOLEAN : Finalize_Usage(p, ok)
    \/ \E p \in Procs, ok \in BOOLEAN : Finalize_Cleanup(p, ok)
    \/ \E p \in Procs, user \in Users, id \in UploadIDs : Abort_Get(p, user, id)
    \/ \E p \in Procs : Abort_Status(p)
    \/ \E p \in Procs : Abort_Reset(p)
    \/ \E p \in Procs : Abort_Remove(p)
    \/ \E id \in UploadIDs : StartResume(id)
    \/ ResponseSent

Spec == Init /\ [][Next]_vars

\* ------------------------------------------------- requests with any headers
\* Spec takes the requests withAuth lets through.  Here every route is taken
\* with whatever credentials the client sends, by one client at a time.
\* withAuth's 401 answer.
Unauthorized(p, op, id, reason) ==
    /\ Ready
    /\ Free(p)
    /\ resuming = Null
    /\ loc' = Arrive(p)
    /\ resp' = Reply(op, id, 401, reason, OthersIdle(p))
    /\ UNCHANGED <<cfg, elsewhere, uploads, chunks, files, usage, scratch, remote, pc, accepted,
                   resuming, overlaps>>

handleInit(p, apiKey, userIDHeader, named, size) ==
    LET a == withAuth(cfg, apiKey, userIDHeader) IN
    IF a = "ok" THEN InitUpload(p, userIDHeader, named, size)
    ELSE Unauthorized(p, "init", Null, a)

handleStatus(p, apiKey, userIDHeader, id) ==
    LET a == withAuth(cfg, apiKey, userIDHeader) IN
    IF a = "ok" THEN GetStatus(p, userIDHeader, id)
    ELSE Unauthorized(p, "status", id, a)

handleChunk(p, apiKey, userIDHeader, id, idx) ==
    LET a == withAuth(cfg, apiKey, userIDHeader) IN
    IF a = "ok" THEN HandleChunk_Get(p, userIDHeader, id, idx)
    ELSE Unauthorized(p, "chunk", id, a)

handleFinalize(p, apiKey, userIDHeader, id) ==
    LET a == withAuth(cfg, apiKey, userIDHeader) IN
    IF a = "ok" THEN Finalize_Get(p, userIDHeader, id)
    ELSE Unauthorized(p, "finalize", id, a)

handleAbort(p, apiKey, userIDHeader, id) ==
    LET a == withAuth(cfg, apiKey, userIDHeader) IN
    IF a = "ok" THEN Abort_Get(p, userIDHeader, id)
    ELSE Unauthorized(p, "abort", id, a)

\* No request is in flight.
Alone == \A q \in Procs : Idle(q)

\* The steps of the requests in flight.
InFlight ==
    \/ \E p \in Procs : WriteChunk_Create(p)
    \/ \E p \in Procs, body \in Payloads : WriteChunk_Copy(p, body)
    \/ \E p \in Procs : WriteChunk_Rename(p)
    \/ \E p \in Procs, hint \in Checksums : HandleChunk_Mismatch(p, hint)
    \/ \E p \in Procs, hint \in Checksums : HandleChunk_Record(p, hint)
    \/ \E p \in Procs : HandleChunk_Advance(p)
    \/ \E p \in Procs : Finalize_List(p)
    \/ \E p \in Procs : Finalize_Processing(p)
    \/ \E p \in Procs, fault \in PutFaults : FinalizeRepo_PutChunk(p, fault)
    \/ \E p \in Procs, fault \in PutFaults : FinalizeRepo_PutManifest(p, fault)
    \/ \E p \in Procs, ok \in BOOLEAN : FinalizeRepo_ManifestPath(p, ok)
    \/ \E p \in Procs : FinalizeRelease_Assemble(p)
    \/ \E p \in Procs, ok \in BOOLEAN : FinalizeRelease_EnsureRelease(p, ok)
    \/ \E p \in Procs, ok \in BOOLEAN : FinalizeRelease_UploadAsset(p, ok)
    \/ \E p \in Procs, ok \in BOOLEAN : Finalize_InsertFileRecord(p, ok)
    \/ \E p \in Procs, ok \in BOOLEAN : Finalize_Failed(p, ok)
    \/ \E p \in Procs, ok \in BOOLEAN : Finalize_Link(p, ok)
    \/ \E p \in Procs, ok \in BOOLEAN : Finalize_Usage(p, ok)
    \/ \E p \in Procs, ok \in BOOLEAN : Finalize_Cleanup(p, ok)
    \/ \E p \in Procs : Abort_Status(p)
    \/ \E p \in Procs : Abort_Reset(p)
    \/ \E p \in Procs : Abort_Remove(p)

NextAuth ==
    \/ \E p \in Procs, k \in APIKeys, h \in UserIDHeaders, named \in BOOLEAN,
          size \in InitSizes(cfg) : Alone /\ handleInit(p, k, h, named, size)
    \/ \E p \in Procs, k \in APIKeys, h \in UserIDHeaders, id \in UploadIDs :
          Alone /\ handleStatus(p, k, h, id)
    \/ \E p \in Procs, k \in APIKeys, h \in UserIDHeaders, id \in UploadIDs,
          idx \in ChunkIndexes : Alone /\ handleChunk(p, k, h, id, idx)
    \/ \E p \in Procs, k \in APIKeys, h \in UserIDHeaders, id \in UploadIDs :
          Alone /\ handleFinalize(p, k, h, id)
    \/ \E p \in Procs, k \in APIKeys, h \in UserIDHeaders, id \in UploadIDs :
          Alone /\ handleAbort(p, k, h, id)
    \/ InFlight
    \/ ResponseSent

SpecAuth == Init /\ [][NextAuth]_vars

\* ------------------------------------------------------- the passing of time
\* The 24 hours that the specification gives an upload have passed since its
\* created_at.  The uploads table of the service has no expiration column, and
\* no statement of the store compares created_at with the clock: expired is a
\* history field that no action reads.
Expire(id) ==
    /\ Ready
    /\ Alone
    /\ uploads[id] # NoUpload
    /\ uploads[id].status \in NonTerminal
    /\ ~uploads[id].expired
    /\ uploads' = [uploads EXCEPT ![id].expired = TRUE]
    /\ resp' = NoResp
    /\ UNCHANGED <<cfg, elsewhere, chunks, files, usage, scratch, remote, pc, loc, accepted,
                   resuming, overlaps>>

\* One client at a time, and the clock.
NextExpiry ==
    \/ \E p \in Procs, user \in Users, named \in BOOLEAN, size \in InitSizes(cfg) :
          Alone /\ InitUpload(p, user, named, size)
    \/ \E p \in Procs, user \in Users, id \in UploadIDs : Alone /\ GetStatus(p, user, id)
    \/ \E p \in Procs, user \in Users, id \in UploadIDs, idx \in ChunkIndexes :
          Alone /\ HandleChunk_Get(p, user, id, idx)
    \/ \E p \in Procs, user \in Users, id \in UploadIDs : Alone /\ Finalize_Get(p, user, id)
    \/ \E p \in Procs, user \in Users, id \in UploadIDs : Alone /\ Abort_Get(p, user, id)
    \/ InFlight
    \/ \E id \in UploadIDs : Expire(id)
    \/ ResponseSent

SpecExpiry == Init /\ [][NextExpiry]_vars

\* ------------------------------------------------ init under any configuration
\* The service started in any of the environments, and the init requests a
\* client sends to it.
InitConfig ==
    /\ \E env \in Environments : Started(Load(env))
    /\ LegacyIdle /\ UploaderIdle /\ HookIdle

NextConfig ==
    \/ \E p \in Procs, user \in Users, named \in BOOLEAN, size \in InitSizes(cfg) :
          InitUpload(p, user, named, size)
    \/ \E p \in Procs, user \in Users, id \in UploadIDs : GetStatus(p, user, id)
    \/ ResponseSent

SpecConfig == InitConfig /\ [][NextConfig]_vars

\* ------------------------------------------- the legacy any-order service
\* UploadHandler of the legacy service, which takes chunks in any order, for
\* one upload of its owner. The store answers every call; the body's checksum
\* matches its header.
LegacyTotalChunks == 1..LegacyMaxChunks
LegacyIndexes == 0..(LegacyMaxChunks - 1)
LegacySizes == 0..LegacyMaxChunkBytes

\* The state after UploadHandler.InitUpload created an upload of total chunks.
LegacyStarted(total) ==
    /\ dbUpload = [status |-> "pending", total_chunks |-> total,
                   chunks_uploaded |-> 0, bytes_uploaded |-> 0]
    /\ dbChunks = <<>>
    /\ handler = [p \in Procs |-> NoRequest]
    /\ response = NoResponse

InitLegacy ==
    /\ Started(Load(Env)) /\ UploaderIdle /\ HookIdle
    /\ \E total \in LegacyTotalChunks : LegacyStarted(total)

\* The indexes with an upload_chunks record in status uploaded
\* (db.Client.GetUploadedChunks).
GetUploadedChunks == DOMAIN dbChunks

\* A legacy response.
LegacyReply(op, code, next, chunksUploaded) ==
    [NoResponse EXCEPT !.op = op, !.code = code, !.next = next,
                       !.chunksUploaded = chunksUploaded]

\* UploadChunk up to the validation of the chunk index: GetUploadByIDAndUser,
\* whose row the handler keeps, the check of the upload's status and of the
\* index against TotalChunks.
UploadChunk_GetUpload(p, idx, size) ==
    /\ handler[p].pc = "idle"
    /\ dbUpload.status # "none"
    /\ UNCHANGED <<serviceVars, uploaderVars, hookVars, dbUpload, dbChunks>>
    /\ IF dbUpload.status \notin {"pending", "in_progress"}
       THEN /\ response' = LegacyReply("chunk", 409, 0, 0)
            /\ UNCHANGED handler
       ELSE IF idx >= dbUpload.total_chunks
       THEN /\ response' = LegacyReply("chunk", 400, 0, 0)
            /\ UNCHANGED handler
       ELSE /\ handler' = [handler EXCEPT ![p] =
                              [pc |-> "get_chunk", idx |-> idx, size |-> size,
                               chunksUploaded |-> dbUpload.chunks_uploaded,
                               bytesUploaded |-> dbUpload.bytes_uploaded]]
            /\ UNCHANGED response

\* getNextExpectedChunk of the row the handler read.
getNextExpectedChunk(h) == h.chunksUploaded

\* UploadChunk: GetChunk and the answer for a chunk that is already uploaded;
\* else the body is read, an empty one refused, and the chunk file written.
UploadChunk_GetChunk(p) ==
    /\ handler[p].pc = "get_chunk"
    /\ UNCHANGED <<serviceVars, uploaderVars, hookVars, dbUpload, dbChunks>>
    /\ IF handler[p].idx \in DOMAIN dbChunks
       THEN /\ response' = LegacyReply("chunk", 200, getNextExpectedChunk(handler[p]),
                                       handler[p].chunksUploaded)
            /\ handler' = [handler EXCEPT ![p] = NoRequest]
       ELSE IF handler[p].size = 0
       THEN /\ response' = LegacyReply("chunk", 400, 0, 0)
            /\ handler' = [handler EXCEPT ![p] = NoRequest]
       ELSE /\ handler' = [handler EXCEPT ![p].pc = "upsert_chunk"]
            /\ UNCHANGED response

\* db.Client.UpsertChunk: an insert that merges into the record of the same
\* upload and chunk index.
UpsertChunk(tbl, idx, size) ==
    [i \in DOMAIN tbl \cup {idx} |->
        IF i = idx THEN [chunk_size |-> size, status |-> "uploaded"] ELSE tbl[i]]

UploadChunk_UpsertChunk(p) ==
    /\ handler[p].pc = "upsert_chunk"
    /\ dbChunks' = UpsertChunk(dbChunks, handler[p].idx, handler[p].size)
    /\ handler' = [handler EXCEPT ![p].pc = "update_upload"]
    /\ UNCHANGED <<serviceVars, uploaderVars, hookVars, dbUpload, response>>

\* db.Client.UpdateUpload: a PATCH that sets the columns to the values given.
UpdateUpload(u, chunksUploaded, bytesUploaded, status) ==
    [u EXCEPT !.chunks_uploaded = chunksUploaded, !.bytes_uploaded = bytesUploaded,
              !.status = status]

\* UploadChunk: the counters of the row read at the start, plus this chunk, are
\* written with UpdateUpload, and the chunk is answered.
UploadChunk_UpdateUpload(p) ==
    /\ handler[p].pc = "update_upload"
    /\ LET chunksUploaded == handler[p].chunksUploaded + 1
           bytesUploaded == handler[p].bytesUploaded + handler[p].size
           nextChunk == IF handler[p].idx + 1 >= dbUpload.total_chunks
                        THEN 0 - 1 ELSE handler[p].idx + 1
       IN  /\ dbUpload' = UpdateUpload(dbUpload, chunksUploaded, bytesUploaded, "in_progress")
           /\ response' = LegacyReply("chunk", 200, nextChunk, chunksUploaded)
    /\ handler' = [handler EXCEPT ![p] = NoRequest]
    /\ UNCHANGED <<serviceVars, uploaderVars, hookVars, dbChunks>>

\* ResumeUpload's loop over i = from..total-1: the first missing index is
\* stored in nextExpected while nextExpected is still 0.
RECURSIVE NextExpectedFrom(_, _, _, _)
NextExpectedFrom(i, total, uploadedSet, nextExpected) ==
    IF i >= total THEN nextExpected
    ELSE NextExpectedFrom(i + 1, total, uploadedSet,
                          IF i \notin uploadedSet /\ nextExpected = 0 THEN i
                          ELSE nextExpected)

\* ResumeUpload: GetUploadByIDAndUser, GetUploadedChunks, and the response
\* with the missing chunks and the next expected one.
ResumeUpload(p) ==
    /\ handler[p].pc = "idle"
    /\ dbUpload.status \in {"pending", "in_progress"}
    /\ LET uploadedSet == GetUploadedChunks
           total == dbUpload.total_chunks
       IN  response' =
              [LegacyReply("resume", 200, NextExpectedFrom(0, total, uploadedSet, 0),
                           Cardinality(uploadedSet))
                  EXCEPT !.missing = (0..(total - 1)) \ uploadedSet]
    /\ UNCHANGED <<serviceVars, uploaderVars, hookVars, dbUpload, dbChunks, handler>>

NextLegacy ==
    \/ \E p \in Procs, idx \in LegacyIndexes, size \in LegacySizes :
          UploadChunk_GetUpload(p, idx, size)
    \/ \E p \in Procs : UploadChunk_GetChunk(p)
    \/ \E p \in Procs : UploadChunk_UpsertChunk(p)
    \/ \E p \in Procs : UploadChunk_UpdateUpload(p)
    \/ \E p \in Procs : ResumeUpload(p)

SpecLegacy == InitLegacy /\ [][NextLegacy]_vars


\* ------------------------------------------------ the browser's uploader
\* ChunkedUploader for one file of UploaderTotalChunks chunks: the upload() call,
\* the resume() calls, and the user's pause() and cancel().
InitUploader == Started(Load(Env)) /\ LegacyIdle /\ UploaderIdle /\ HookIdle

\* upload() is called: progress 'initializing' is emitted and initUpload awaited.
upload ==
    /\ run["upload"].pc = "idle"
    /\ session = NoSession
    /\ run' = [run EXCEPT !["upload"].pc = "init"]
    /\ UNCHANGED <<serviceVars, legacyVars, hookVars, session, onError>>

\* initUpload answered: an error is thrown to the caller, before the try; else
\* the session is created in status uploading with a new AbortController and
\* put into the sessions map, and getChunkUploadInfo is awaited.
upload_initUpload(ok) ==
    /\ run["upload"].pc = "init"
    /\ UNCHANGED <<serviceVars, legacyVars, hookVars, onError>>
    /\ IF ok
       THEN /\ session' = [NoSession EXCEPT !.status = "uploading", !.held = TRUE]
            /\ run' = [run EXCEPT !["upload"].pc = "info"]
       ELSE /\ run' = [run EXCEPT !["upload"].pc = "rejected"]
            /\ UNCHANGED session

\* The catch block of call r, reached by an error thrown inside its try: upload()
\* spares only a cancelled session, resume() a cancelled or a paused one; any
\* other session becomes failed and options.onError is called.
Spared(r) == IF r = "upload" THEN {"cancelled"} ELSE {"cancelled", "paused"}

Catch(r, sess) ==
    /\ run' = [run EXCEPT ![r].pc = "rejected"]
    /\ IF sess.status \in Spared(r)
       THEN /\ session' = sess
            /\ UNCHANGED onError
       ELSE /\ session' = [sess EXCEPT !.status = "failed"]
            /\ onError' = onError + 1

\* The first chunk from i on that is not uploaded, UploaderTotalChunks if none.
RECURSIVE FirstToUpload(_, _)
FirstToUpload(i, uploadedChunks) ==
    IF i >= UploaderTotalChunks \/ i \notin uploadedChunks THEN i
    ELSE FirstToUpload(i + 1, uploadedChunks)

\* uploadChunks from chunk i up to its next await: a turn of the loop throws on
\* a paused or cancelled session, skips an uploaded chunk, and otherwise
\* slices and hashes the chunk and begins its upload with the signal taken at
\* the start; after the last turn upload() or resume() sets the session to
\* finalizing and awaits finalizeUpload.
uploadChunks(r, i, signal, sess) ==
    /\ UNCHANGED <<serviceVars, legacyVars, hookVars>>
    /\ IF i < UploaderTotalChunks /\ sess.status \in {"paused", "cancelled"}
       THEN Catch(r, sess)
       ELSE IF FirstToUpload(i, sess.uploadedChunks) >= UploaderTotalChunks
       THEN /\ session' = [sess EXCEPT !.status = "finalizing"]
            /\ run' = [run EXCEPT ![r].pc = "finalize"]
            /\ UNCHANGED onError
       ELSE /\ session' = sess
            /\ run' = [run EXCEPT ![r].pc = "fetch", ![r].attempt = 0,
                                  ![r].signal = signal,
                                  ![r].chunkIndex = FirstToUpload(i, sess.uploadedChunks)]
            /\ UNCHANGED onError

\* getChunkUploadInfo answered; on success uploadChunks starts and takes the
\* session's abortController.
getChunkUploadInfo(r, ok) ==
    /\ run[r].pc = "info"
    /\ IF ok
       THEN uploadChunks(r, 0, session.abortController, session)
       ELSE /\ Catch(r, session)
            /\ UNCHANGED <<serviceVars, legacyVars, hookVars>>

\* The outcomes of one fetch of a chunk: the chunk was stored, an error whose
\* message holds a '4', or any other error.
Outcomes == {"ok", "client_error", "server_error"}

\* uploadChunkWithRetry, one attempt: the fetch of an aborted signal rejects and
\* is not retried; a stored chunk is added to uploadedChunks and the loop goes
\* on; an error with a '4' in its message is thrown at once, any other after
\* maxRetries retries.
uploadChunkWithRetry(r, outcome) ==
    /\ run[r].pc = "fetch"
    /\ IF run[r].signal \in session.aborted
       THEN /\ Catch(r, session)
            /\ UNCHANGED <<serviceVars, legacyVars, hookVars>>
       ELSE IF outcome = "ok"
       THEN uploadChunks(r, run[r].chunkIndex + 1, run[r].signal,
                         [session EXCEPT !.uploadedChunks = @ \cup {run[r].chunkIndex}])
       ELSE IF outcome = "server_error" /\ run[r].attempt < MaxRetries
       THEN /\ run' = [run EXCEPT ![r].attempt = @ + 1]
            /\ UNCHANGED <<serviceVars, legacyVars, hookVars, session, onError>>
       ELSE /\ Catch(r, session)
            /\ UNCHANGED <<serviceVars, legacyVars, hookVars>>

\* finalizeUpload answered: the session is completed and options.onComplete
\* called, or the error is thrown.
finalizeUpload(r, ok) ==
    /\ run[r].pc = "finalize"
    /\ UNCHANGED <<serviceVars, legacyVars, hookVars>>
    /\ IF ok
       THEN /\ session' = [session EXCEPT !.status = "completed"]
            /\ run' = [run EXCEPT ![r].pc = "returned"]
            /\ UNCHANGED onError
       ELSE Catch(r, session)

\* pause(): only a session in status uploading is paused, and its
\* abortController aborted.
pause ==
    /\ session.held
    /\ session.status = "uploading"
    /\ session' = [session EXCEPT !.status = "paused",
                                  !.aborted = @ \cup {session.abortController}]
    /\ UNCHANGED <<serviceVars, legacyVars, hookVars, run, onError>>

\* resume() is called on a paused session: getResumeInfo is awaited.
resume ==
    /\ run["resume"].pc \in {"idle", "returned", "rejected"}
    /\ session.held
    /\ session.status = "paused"
    /\ session.abortController < MaxResumes
    /\ run' = [run EXCEPT !["resume"] = [NoRun EXCEPT !.pc = "sync"]]
    /\ UNCHANGED <<serviceVars, legacyVars, hookVars, session, onError>>

\* getResumeInfo answered with the server's missing chunks, or with none: the
\* uploaded chunks become the others; the session gets a new AbortController
\* and status uploading, and getChunkUploadInfo is awaited.
NoData == {UploaderTotalChunks}
resume_getResumeInfo(missing) ==
    /\ run["resume"].pc = "sync"
    /\ session' = [session EXCEPT
                      !.uploadedChunks = IF missing = NoData THEN @
                                         ELSE (0..(UploaderTotalChunks - 1)) \ missing,
                      !.abortController = @ + 1,
                      !.status = "uploading"]
    /\ run' = [run EXCEPT !["resume"].pc = "info"]
    /\ UNCHANGED <<serviceVars, legacyVars, hookVars, onError>>

\* cancel(): the session is cancelled, its abortController aborted, and it is
\* taken out of the sessions map.
cancel ==
    /\ session.held
    /\ session' = [session EXCEPT !.status = "cancelled", !.held = FALSE,
                                  !.aborted = @ \cup {session.abortController}]
    /\ UNCHANGED <<serviceVars, legacyVars, hookVars, run, onError>>

NextUploader ==
    \/ upload
    \/ \E ok \in BOOLEAN : upload_initUpload(ok)
    \/ \E r \in Runs, ok \in BOOLEAN : getChunkUploadInfo(r, ok)
    \/ \E r \in Runs, outcome \in Outcomes : uploadChunkWithRetry(r, outcome)
    \/ \E r \in Runs, ok \in BOOLEAN : finalizeUpload(r, ok)
    \/ pause
    \/ resume
    \/ \E missing \in SUBSET (0..(UploaderTotalChunks - 1)) \cup {NoData} :
          resume_getResumeInfo(missing)
    \/ cancel

SpecUploader == InitUploader /\ [][NextUploader]_vars


\* ------------------------------------------------ the browser's upload queue
\* useChunkedUpload: the queue of files, the set of ids that hold a slot, and
\* the upload() call of every file started.
InitHook == Started(Load(Env)) /\ LegacyIdle /\ UploaderIdle /\ HookIdle

\* processQueue: while a file waits and the active set is smaller than
\* maxConcurrent, the first file is taken, listed under its temp id, the temp
\* id added to the active set and upload() called. The result is the queue,
\* the active set and the items after the loop.
RECURSIVE processQueue(_, _, _)
processQueue(queue, active, its) ==
    IF Len(queue) > 0 /\ Cardinality(active) < maxConcurrent
    THEN processQueue(Tail(queue), active \cup {tempId(Head(queue))},
                      [its EXCEPT ![Head(queue)] =
                          [pc |-> "running", listed |-> TRUE, id |-> "temp"]])
    ELSE [queue |-> queue, active |-> active, items |-> its]

\* The hook's state becomes what processQueue leaves.
Processed(queue, active, its) ==
    /\ uploadQueue' = processQueue(queue, active, its).queue
    /\ activeUploads' = processQueue(queue, active, its).active
    /\ items' = processQueue(queue, active, its).items

\* The sequence of the files of a set, in ascending order.
RECURSIVE InOrder(_)
InOrder(S) ==
    IF S = {} THEN <<>>
    ELSE LET f == CHOOSE x \in S : \A y \in S : x <= y
         IN <<f>> \o InOrder(S \ {f})

\* addFiles(files): every file is pushed on the queue, then processQueue runs.
addFiles(fs) ==
    /\ fs # {}
    /\ \A f \in fs : items[f].pc = "new"
    /\ Processed(uploadQueue \o InOrder(fs), activeUploads,
                 [f \in HookFiles |-> IF f \in fs THEN [items[f] EXCEPT !.pc = "queued"]
                                      ELSE items[f]])
    /\ UNCHANGED <<serviceVars, legacyVars, uploaderVars>>

\* The upload() call of file f returns its uploadId: the uploader's onComplete
\* has deleted the uploadId from the active set; then the item's id in the list
\* becomes the uploadId, the temp id is deleted from the active set and the
\* uploadId added to it.
upload_Returns(f) ==
    /\ items[f].pc = "running"
    /\ items' = [items EXCEPT ![f].pc = "completed",
                              ![f].id = IF items[f].listed THEN "real" ELSE @]
    /\ activeUploads' = ((activeUploads \ {uploadId(f)}) \ {tempId(f)}) \cup {uploadId(f)}
    /\ UNCHANGED <<serviceVars, legacyVars, uploaderVars, uploadQueue>>

\* The upload() call of file f throws: the uploader's onError, if it was called,
\* has deleted the uploadId from the active set; the catch deletes the temp id,
\* marks the item failed and runs processQueue.
upload_Throws(f) ==
    /\ items[f].pc = "running"
    /\ Processed(uploadQueue, (activeUploads \ {uploadId(f)}) \ {tempId(f)},
                 [items EXCEPT ![f].pc = "failed"])
    /\ UNCHANGED <<serviceVars, legacyVars, uploaderVars>>

\* The id under which the list shows file f.
ListedId(f) == IF items[f].id = "real" THEN uploadId(f) ELSE tempId(f)

\* cancelUpload(id) with the id of a listed item: the uploader cancels the
\* session of that id, which a temp id does not name, so the upload() call of
\* a file listed under its temp id keeps running; the item is removed from the
\* list, the id deleted from the active set, and processQueue runs.
cancelUpload(f) ==
    /\ items[f].listed
    /\ Processed(uploadQueue, activeUploads \ {ListedId(f)},
                 [items EXCEPT ![f].listed = FALSE])
    /\ UNCHANGED <<serviceVars, legacyVars, uploaderVars>>

NextHook ==
    \/ \E fs \in SUBSET HookFiles : addFiles(fs)
    \/ \E f \in HookFiles : upload_Returns(f)
    \/ \E f \in HookFiles : upload_Throws(f)
    \/ \E f \in HookFiles : cancelUpload(f)

SpecHook == InitHook /\ [][NextHook]_vars


\* ---------------------------------------------------------------- claims
Exists(id) == uploads[id] # NoUpload

\* The step writes a response.
Responds == resp' # NoResp /\ resp' # resp

\* The step leaves the metadata rows and the scratch files of every upload alone.
NothingWritten == uploads' = uploads /\ chunks' = chunks /\ scratch' = scratch

\* C1: once an upload's status is completed, aborted or failed, no step of any
\* request, arriving later or already in flight, changes the status.
C1_TerminalStatusIsFinal ==
    [][\A id \in UploadIDs :
          uploads[id].status \in Terminal => uploads'[id].status = uploads[id].status]_vars

\* The ordering policy for a request that ran alone on an upload whose status
\* lies in statuses and whose received_chunks is k: index k is accepted and
\* received_chunks becomes k+1; an index below k is answered 200 with next
\* index k and nothing is written; an index above k is refused and nothing is
\* written.  The last two are answered by the step the request arrives in, so
\* no earlier step of the request wrote anything either.  (A body that fails
\* its checksum is not accepted.)
OrderingPolicy(statuses) ==
    \A id \in UploadIDs :
       ( /\ Responds
         /\ resp'.op = "chunk" /\ resp'.id = id /\ resp'.solo
         /\ resp'.kind \notin {"not_found", "checksum_mismatch"}
         /\ uploads[id].status \in statuses )
       => LET k == uploads[id].received_chunks
              i == resp'.idx
          IN  /\ i = k => /\ resp'.code = 200 /\ resp'.kind = "accepted"
                          /\ uploads'[id].received_chunks = k + 1
              /\ i < k => /\ resp'.code = 200 /\ resp'.next = k
                          /\ pc' = pc /\ NothingWritten
              /\ i > k => /\ resp'.code >= 400
                          /\ pc' = pc /\ NothingWritten

\* C2 as stated: the ordering policy holds on every upload that is not terminal.
C2_OrderingPolicyNonTerminal == [][OrderingPolicy(NonTerminal)]_vars

\* C2 as amended: the ordering policy holds on every upload that is pending or
\* in progress.
C2_OrderingPolicy == [][OrderingPolicy({"pending", "in_progress"})]_vars

\* A request that ran alone put chunk 1 of a two-chunk upload after chunk 0 and
\* was accepted.
C2_Witness ==
    /\ resp.op = "chunk" /\ resp.solo /\ resp.kind = "accepted" /\ resp.idx = 1
    /\ uploads[resp.id].total_chunks = 2
    /\ uploads[resp.id].received_chunks = 2

\* C3: for every index, received_chunks is advanced past it at most once, and
\* every other put_chunk attempt on an upload that is still taking chunks is
\* answered with an idempotent success or an ordering error.
C3_OneAdvancePerIndex ==
    /\ \A id \in UploadIDs, i \in ChunkIndexes : accepted[id][i] <= 1
    /\ ( /\ resp.op = "chunk"
         /\ resp.kind \notin {"accepted", "not_found", "checksum_mismatch"}
         /\ uploads[resp.id].status \in {"pending", "in_progress"} )
       => resp.kind \in {"idempotent", "unexpected_index", "out_of_order"}

\* C4: received_chunks of every upload lies between 0 and total_chunks.
C4_ReceivedChunksWithinTotal ==
    \A id \in UploadIDs :
       Exists(id) => /\ 0 <= uploads[id].received_chunks
                     /\ uploads[id].received_chunks <= uploads[id].total_chunks

\* Sum of the stored byte counts of the chunk rows with index below n.
BytesBelow(rows, n) ==
    SumOver([i \in DOMAIN rows |-> rows[i].size_bytes], {i \in DOMAIN rows : i < n})

\* C5: received_bytes of every upload is the sum of the stored byte counts of
\* its chunk rows with index below received_chunks.
C5_ReceivedBytesMatchChunkRows ==
    \A id \in UploadIDs :
       Exists(id) =>
          uploads[id].received_bytes = BytesBelow(chunks[id], uploads[id].received_chunks)

\* A put_chunk that arrives for an index accepted earlier, on an upload that is
\* not terminal: the step is the whole request.
Replay(id) ==
    /\ Responds /\ pc' = pc
    /\ resp'.op = "chunk" /\ resp'.id = id /\ resp'.kind # "not_found"
    /\ uploads[id].status \in NonTerminal
    /\ accepted[id][resp'.idx] > 0

\* C6 as stated: a replay changes nothing and returns the nextChunkIndex the
\* accepted request returned, its index plus one.
C6_ReplayReturnsOriginalNext ==
    [][\A id \in UploadIDs :
          Replay(id) => /\ NothingWritten
                        /\ resp'.code = 200 /\ resp'.next = resp'.idx + 1]_vars

\* C6 as amended: a replay changes nothing and returns the upload's current
\* received_chunks as nextChunkIndex.
C6_ReplayReturnsCurrentNext ==
    [][\A id \in UploadIDs :
          Replay(id) => /\ NothingWritten
                        /\ resp'.code = 200
                        /\ resp'.next = uploads[id].received_chunks]_vars

\* A replay of chunk 0 of a two-chunk upload, answered after chunk 1 was
\* accepted as well.
C6_Witness ==
    /\ resp.op = "chunk" /\ resp.kind = "idempotent" /\ resp.idx = 0 /\ resp.next = 2
    /\ accepted[resp.id][0] = 1
    /\ uploads[resp.id].total_chunks = 2
    /\ uploads[resp.id].status \in NonTerminal

\* C7: the resuming client, which took over a quiescent upload that was not
\* terminal, has every chunk it sends accepted and its finalize accepted, and
\* the upload is completed unless the materializer failed.
C7_ResumedUploadCompletes ==
    resuming # Null =>
       /\ resp.op = "chunk" => resp.code = 200
       /\ resp.op = "finalize" =>
             \/ resp.code = 200 /\ uploads[resuming].status = "completed"
             \/ resp.kind = "materialize_failed"

\* C8: a completed upload's file id names a row of the files table whose size
\* is the upload's declared size and whose owner is the upload's owner.
C8_CompletedHasFileRecord ==
    \A id \in UploadIDs :
       uploads[id].status = "completed" =>
          /\ uploads[id].file_id \in 1..Len(files)
          /\ files[uploads[id].file_id].size_bytes = uploads[id].size
          /\ files[uploads[id].file_id].user_id = uploads[id].user_id

\* An upload is completed after chunks whose bytes do not add up to its size.
C8_Witness ==
    \E id \in UploadIDs :
       /\ uploads[id].status = "completed"
       /\ uploads[id].received_bytes # uploads[id].size

\* C9: at most one row of the files table was inserted for any upload.
C9_OneFileRecordPerUpload ==
    \A id \in UploadIDs :
       Cardinality({k \in 1..Len(files) : files[k].upload_id = id}) <= 1

\* C10: a completed upload's received_bytes is its declared size.
C10_CompletedReceivedAllBytes ==
    \A id \in UploadIDs :
       uploads[id].status = "completed" => uploads[id].received_bytes = uploads[id].size

\* No request is in flight.
Quiescent == \A p \in Procs : Idle(p)

\* Request p returns in this step.
Returns(p) == pc[p] # "idle" /\ pc'[p] = "idle"

\* C11: a completed upload has no scratch directory once no request is in
\* flight, whatever step of finalize after LinkFile returned an error.
C11_CompletedScratchRemoved ==
    \A id \in UploadIDs :
       uploads[id].status = "completed" /\ Quiescent => ~scratch[id].exists

\* C12: a put_chunk that ran alone and whose checksum header differs from the
\* digest of its body is answered 400; the upload's row (received_chunks,
\* received_bytes, status) and its chunk rows are as they were when the request
\* arrived, and no file is left at the chunk's path.
C12_ChecksumMismatchRejected ==
    [][\A p \in Procs :
          ( /\ Returns(p) /\ loc[p].solo
            /\ resp'.op = "chunk" /\ resp'.kind = "checksum_mismatch" )
          => LET id == loc[p].id IN
             /\ resp'.code = 400
             /\ uploads'[id] = loc[p].seen.u
             /\ chunks'[id] = loc[p].seen.rows
             /\ loc[p].idx \notin DOMAIN scratch'[id].chunk]_vars

\* A put of chunk 1 of a two-chunk upload that ran alone was refused for its
\* checksum.
C12_Witness ==
    /\ resp.op = "chunk" /\ resp.kind = "checksum_mismatch" /\ resp.solo
    /\ resp.idx = 1
    /\ uploads[resp.id].total_chunks = 2
    /\ uploads[resp.id].received_chunks = 1

\* C13: for every chunk index below received_chunks of an upload that is not
\* terminal, the chunk's file exists in the scratch directory and its SHA-256
\* is the digest stored in the chunk row.
C13_AcceptedChunksOnDisk ==
    \A id \in UploadIDs :
       uploads[id].status \in NonTerminal =>
          \A i \in 0..(uploads[id].received_chunks - 1) :
             /\ i \in DOMAIN scratch[id].chunk
             /\ i \in DOMAIN chunks[id]
             /\ Sha256(scratch[id].chunk[i]) = chunks[id][i].checksum

\* C14: an abort that arrives at an upload in processing is refused in the
\* step it arrives in, and a step writes status aborted only over pending or
\* in_progress.
C14_AbortOnlyWhileTakingChunks ==
    [][/\ \A p \in Procs :
             pc[p] = "idle" /\ pc'[p] = "abort_status"
             => uploads[loc'[p].id].status # "processing"
       /\ \A id \in UploadIDs :
             uploads'[id].status = "aborted" /\ uploads[id].status # "aborted"
             => uploads[id].status \in {"pending", "in_progress"}]_vars

\* C15: an abort that ran alone on a pending or in_progress upload is answered
\* 200 and leaves the upload aborted with no chunk rows and no scratch
\* directory; a put_chunk that arrives at an aborted upload, whatever its index,
\* is answered with an error in the step it arrives in, and nothing is written.
C15_AbortedRefusesChunks ==
    [][/\ \A p \in Procs :
             ( /\ Returns(p) /\ loc[p].solo /\ resp'.op = "abort"
               /\ loc[p].seen.u.status \in {"pending", "in_progress"} )
             => LET id == loc[p].id IN
                /\ resp'.code = 200
                /\ uploads'[id].status = "aborted"
                /\ chunks'[id] = <<>>
                /\ scratch'[id] = EmptyScratch
       /\ \A p \in Procs :
             pc[p] = "idle" /\ pc'[p] = "chunk_stage"
             => uploads[loc'[p].id].status # "aborted"
       /\ \A id \in UploadIDs :
             ( /\ Responds /\ resp'.op = "chunk" /\ resp'.id = id
               /\ resp'.kind # "not_found"
               /\ uploads[id].status = "aborted" /\ pc' = pc )
             => resp'.code >= 400 /\ NothingWritten]_vars

\* An abort that ran alone after chunk 0 was accepted has returned.
C15_Witness ==
    /\ resp.op = "abort" /\ resp.code = 200 /\ resp.solo
    /\ uploads[resp.id].status = "aborted"
    /\ uploads[resp.id].received_chunks = 1
    /\ accepted[resp.id][0] = 1

\* C16: once an abort and a put_chunk that overlapped have both returned, the
\* upload is aborted with no chunk rows and no scratch files, and the put_chunk
\* was answered with an error.
C16_AbortBeatsChunkInFlight ==
    ( /\ Quiescent
      /\ resp.op \in {"chunk", "abort"} /\ ~resp.solo
      /\ uploads[resp.id].status = "aborted"
      /\ resp.kind \notin {"not_found", "accepted"} )
    => /\ chunks[resp.id] = <<>>
       /\ scratch[resp.id].partial = <<>>
       /\ scratch[resp.id].chunk = <<>>
       /\ ~scratch[resp.id].assembled
       /\ resp.op = "chunk" => resp.code >= 400

\* A finalize arrives at upload id and is answered in the same step.
FinalizeAnswered(id) ==
    /\ Responds /\ pc' = pc
    /\ resp'.op = "finalize" /\ resp'.id = id /\ resp'.kind # "not_found"

\* Request p arrives as a finalize that goes on to ListChunks.
FinalizeProceeds(p) == pc[p] = "idle" /\ pc'[p] = "fin_list"

\* The step writes nothing to the metadata store, the scratch directory or the
\* remote repository.
NoEffect ==
    NothingWritten /\ files' = files /\ usage' = usage /\ remote' = remote

\* C17: a finalize that arrives at an upload whose received_chunks differs from
\* total_chunks is answered with an error in the step it arrives in, and that
\* step writes nothing.
C17_IncompleteFinalizeRefused ==
    [][/\ \A p \in Procs :
             FinalizeProceeds(p) =>
                uploads[loc'[p].id].received_chunks = uploads[loc'[p].id].total_chunks
       /\ \A id \in UploadIDs :
             ( /\ FinalizeAnswered(id)
               /\ uploads[id].received_chunks # uploads[id].total_chunks )
             => resp'.code >= 400 /\ NoEffect]_vars

\* C18: a finalize that arrives at a failed or aborted upload is answered with
\* an error in the step it arrives in, and that step writes nothing.
C18_FinalizeRefusedAfterFailure ==
    [][/\ \A p \in Procs :
             FinalizeProceeds(p) => uploads[loc'[p].id].status \notin {"failed", "aborted"}
       /\ \A id \in UploadIDs :
             FinalizeAnswered(id) /\ uploads[id].status \in {"failed", "aborted"}
             => resp'.code >= 400 /\ NoEffect]_vars

\* C19: a finalize that arrives at a completed upload is answered 200 with the
\* upload's file id, size and completion time in the step it arrives in, and
\* that step writes nothing; and as long as the upload stays completed its file
\* id and completion time do not change, so every such call returns the same.
C19_FinalizeAgainSameResult ==
    [][/\ \A p \in Procs :
             FinalizeProceeds(p) => uploads[loc'[p].id].status # "completed"
       /\ \A id \in UploadIDs :
             /\ FinalizeAnswered(id) /\ uploads[id].status = "completed"
                => /\ resp'.code = 200
                   /\ resp'.file = uploads[id].file_id
                   /\ resp'.bytes = uploads[id].size
                   /\ resp'.at = uploads[id].completed_at
                   /\ NoEffect
             /\ uploads[id].status = "completed" /\ uploads'[id].status = "completed"
                => /\ uploads'[id].file_id = uploads[id].file_id
                   /\ uploads'[id].completed_at = uploads[id].completed_at]_vars

Untouched == pc' = pc /\ NoEffect /\ accepted' = accepted

\* The 404 answer of operation op on upload id.
NotFound(p, op, id) == Reply(op, id, 404, "not_found", OthersIdle(p))

\* C21: a status, put_chunk, finalize or abort request of a user on an upload
\* that another user owns is answered in one step with the 404 answer that the
\* same request gets when the upload does not exist, and that step writes
\* nothing.
C21_ForeignOwnerNotFound ==
    [][\A p \in Procs, user \in Users, id \in UploadIDs :
          (uploads[id] = NoUpload \/ uploads[id].user_id # user)
          => /\ GetStatus(p, user, id)
                => resp' = NotFound(p, "status", id) /\ Untouched
             /\ \A idx \in ChunkIndexes :
                   HandleChunk_Get(p, user, id, idx)
                   => resp' = [NotFound(p, "chunk", id) EXCEPT !.idx = idx] /\ Untouched
             /\ Finalize_Get(p, user, id)
                => resp' = NotFound(p, "finalize", id) /\ Untouched
             /\ Abort_Get(p, user, id)
                => resp' = NotFound(p, "abort", id) /\ Untouched]_vars

\* A put_chunk on an existing upload that has received chunk 0 was answered
\* not found: it came from a user who does not own the upload.
C21_Witness ==
    /\ resp.op = "chunk" /\ resp.kind = "not_found" /\ resp.code = 404
    /\ uploads[resp.id] # NoUpload
    /\ uploads[resp.id].received_chunks = 1

\* The request carries the service credential and a well-formed owner id.
Credentialed(apiKey, userIDHeader) ==
    apiKey # "" /\ apiKey = cfg.APIKey /\ userIDHeader \in Users

\* Process p takes a request on any route with these two headers.
Routed(p, apiKey, userIDHeader) ==
    \/ \E named \in BOOLEAN, size \in InitSizes(cfg) :
          handleInit(p, apiKey, userIDHeader, named, size)
    \/ \E id \in UploadIDs : handleStatus(p, apiKey, userIDHeader, id)
    \/ \E id \in UploadIDs, idx \in ChunkIndexes :
          handleChunk(p, apiKey, userIDHeader, id, idx)
    \/ \E id \in UploadIDs : handleFinalize(p, apiKey, userIDHeader, id)
    \/ \E id \in UploadIDs : handleAbort(p, apiKey, userIDHeader, id)

\* C22: a request on any route but the health check that lacks the service
\* credential, carries a wrong one, or lacks a well-formed owner id is answered
\* 401 in one step, and that step writes nothing.
C22_UnauthorizedRejected ==
    [][\A p \in Procs, k \in APIKeys, h \in UserIDHeaders :
          ~Credentialed(k, h) /\ Routed(p, k, h)
          => resp'.code = 401 /\ Untouched]_vars

\* A put_chunk on an upload that has received chunk 0 was answered 401.
C22_Witness ==
    /\ resp.op = "chunk" /\ resp.code = 401
    /\ uploads[resp.id] # NoUpload
    /\ uploads[resp.id].received_chunks = 1

\* C23: a put_chunk whose index is above received_chunks of an upload that is
\* pending or in progress is answered 409, and nothing is written, so that a
\* status call that follows reports the same received_chunks as next chunk.
C23_IndexAheadConflict ==
    [][\A id \in UploadIDs :
          ( /\ Responds /\ pc' = pc
            /\ resp'.op = "chunk" /\ resp'.id = id /\ resp'.kind # "not_found"
            /\ uploads[id].status \in {"pending", "in_progress"}
            /\ resp'.idx > uploads[id].received_chunks )
          => resp'.code = 409 /\ NothingWritten]_vars

\* C24: on an upload that is not terminal and whose expiration time has
\* passed, no put_chunk, finalize or abort goes in flight; the request is
\* answered with an error in the step it arrives in, and that step leaves the
\* upload failed, its counters as they were and its scratch directory removed.
C24_ExpiredTreatedAsFailed ==
    [][\A id \in UploadIDs :
          ( /\ uploads[id] # NoUpload
            /\ uploads[id].expired /\ uploads[id].status \in NonTerminal )
          => /\ \A p \in Procs : Idle(p) /\ loc'[p].id = id => pc'[p] = "idle"
             /\ ( /\ Responds /\ pc' = pc
                  /\ resp'.op \in {"chunk", "finalize", "abort"}
                  /\ resp'.id = id /\ resp'.kind # "not_found" )
                => /\ resp'.code >= 400
                   /\ uploads'[id].status = "failed"
                   /\ uploads'[id].received_chunks = uploads[id].received_chunks
                   /\ uploads'[id].received_bytes = uploads[id].received_bytes
                   /\ ~scratch'[id].exists]_vars

\* The strategy the specification's table gives a declared size: release
\* assets first, then git-lfs, then repo chunks.
TableStrategy(c, size) ==
    IF c.EnableReleaseAssets /\ size <= c.ReleaseMaxBytes THEN "release_asset"
    ELSE IF c.EnableGitLFS /\ size <= c.LFSThresholdBytes THEN "git_lfs"
    ELSE "repo_chunks"

\* C25: under every configuration, the strategy stored by init is release-asset
\* when release assets are enabled and the size is within release_max_bytes,
\* otherwise git-lfs when git-lfs is enabled and the size is within
\* lfs_threshold_bytes, otherwise repo-chunks.
C25_StrategyTable ==
    \A id \in UploadIDs :
       uploads[id] # NoUpload => uploads[id].strategy = TableStrategy(cfg, uploads[id].size)

\* The fields of an upload's row that the specification fixes at init.
FixedAtInit(u) ==
    <<u.strategy, u.chunk_size, u.total_chunks, u.size, u.filename, u.user_id, u.repo_name>>

\* C26: no step of any request changes the strategy, chunk size, total chunk
\* count, declared size, filename, owner or repository name of an upload that
\* exists, and no step removes the upload.
C26_InitFieldsImmutable ==
    [][\A id \in UploadIDs :
          uploads[id] # NoUpload
          => /\ uploads'[id] # NoUpload
             /\ FixedAtInit(uploads'[id]) = FixedAtInit(uploads[id])]_vars

\* A two-chunk upload whose chunks were put with bodies of different sizes has
\* been finalized.
C26_Witness ==
    \E id \in UploadIDs :
       /\ uploads[id].status = "completed"
       /\ uploads[id].total_chunks = 2
       /\ uploads[id].received_bytes = 3

\* The smaller and the larger of two numbers, and the quotient rounded up.
Min(a, b) == IF a < b THEN a ELSE b
Max(a, b) == IF a > b THEN a ELSE b
Ceil(a, b) == (a + b - 1) \div b

\* C27: under every configuration, the chunk size stored by init is the
\* configured default chunk size clamped to [1 MiB, 50 MiB] and then capped at
\* the declared size, and total_chunks is the declared size divided by the
\* chunk size, rounded up, and at least 1.
C27_ChunkSizeClamped ==
    \A id \in UploadIDs :
       uploads[id] # NoUpload =>
          LET u == uploads[id]
              clamped == Max(MiB, Min(50 * MiB, cfg.DefaultChunkSizeBytes))
          IN  /\ u.chunk_size = Min(clamped, u.size)
              /\ u.total_chunks = Ceil(u.size, u.chunk_size)
              /\ u.total_chunks >= 1

\* C28: an init with a size of zero or less, or above the maximum upload size,
\* is answered with an error and creates no upload; an init with a filename and
\* a size above zero and up to the maximum upload size, the maximum included,
\* is answered 200 and creates the upload with that size.
C28_InitSizeLimits ==
    [][\A p \in Procs, user \in Users, named \in BOOLEAN, size \in InitSizes(cfg) :
          InitUpload(p, user, named, size)
          => /\ (size <= 0 \/ size > cfg.MaxUploadBytes)
                => resp'.code >= 400 /\ Untouched
             /\ (named /\ size > 0 /\ size <= cfg.MaxUploadBytes)
                => /\ resp'.code = 200
                   /\ uploads[resp'.id] = NoUpload
                   /\ uploads'[resp'.id].size = size]_vars

\* An init with a size equal to the maximum upload size was accepted.
C28_Witness ==
    /\ resp.op = "init" /\ resp.code = 200
    /\ uploads[resp.id].size = cfg.MaxUploadBytes

\* C29: while an upload is pending or in progress, every chunk index that
\* received_chunks was advanced past has its file at the chunk's final scratch
\* path, at every point of every put_chunk.
C29_CountedChunksRenamed ==
    \A id \in UploadIDs :
       uploads[id].status \in {"pending", "in_progress"} =>
          \A i \in ChunkIndexes :
             accepted[id][i] > 0 => i \in DOMAIN scratch[id].chunk

\* C30: every file at a chunk's final scratch path holds the complete body of
\* one write, at every point of every interleaving.
C30_FinalPathHoldsOneWrite ==
    \A id \in UploadIDs :
       \A i \in DOMAIN scratch[id].chunk : scratch[id].chunk[i] \in Payloads

\* The materializer errors that come from assembling the file or from a write
\* to the remote.
AssemblyOrRemoteErrors ==
    {"read_chunk", "put_chunk", "put_manifest", "assemble", "release", "asset"}

\* Finalize p returns the error of an assembly or remote-write step.
MaterializeFailed(p) ==
    Returns(p) /\ pc[p] = "fin_fail" /\ loc[p].err \in AssemblyOrRemoteErrors

\* C31: when a finalize returns because an assembly or remote-write step
\* failed, the upload's status is failed, no file record is linked to it and
\* its scratch directory is still there.
C31_MaterializeFailureLeavesFailed ==
    [][\A p \in Procs :
          MaterializeFailed(p) =>
             LET id == loc[p].id IN
             /\ uploads'[id].status = "failed"
             /\ uploads'[id].file_id = 0
             /\ scratch'[id].exists]_vars

\* The bytes of the chunk rows of upload id.
ChunkBytes(id) ==
    SumOver([i \in DOMAIN chunks[id] |-> chunks[id][i].size_bytes], DOMAIN chunks[id])

\* Request p leaves the step named in this step.
Leaves(p, step) == pc[p] = step /\ pc'[p] # step

\* C32: a finalize that finds a number of chunk rows other than total_chunks
\* returns an error and leaves the upload failed with its scratch directory as
\* it was; one that finds the rows' bytes not to sum to the declared size does
\* not go on to materialize; and one that comes to a listed chunk whose scratch
\* file is missing goes on to write status failed, scratch untouched.
C32_IntegrityFailureLeavesFailed ==
    [][\A p \in Procs :
          LET id == loc[p].id IN
          /\ ( Leaves(p, "fin_list") /\ Cardinality(DOMAIN chunks[id]) # uploads[id].total_chunks )
             => /\ Returns(p) /\ resp'.code >= 400
                /\ uploads'[id].status = "failed"
                /\ scratch'[id] = scratch[id]
          /\ ( Leaves(p, "fin_list") /\ ChunkBytes(id) # uploads[id].size )
             => pc'[p] # "fin_processing"
          /\ ( Leaves(p, "fin_put") /\ Head(loc[p].list).chunk_index \notin DOMAIN scratch[id].chunk )
             => pc'[p] = "fin_fail" /\ scratch'[id] = scratch[id]]_vars

\* C33: a remote write of a repo-chunks finalize whose call fails on its first
\* attempt only, and would succeed on the second, does not end the materializer
\* with the error of that write.
C33_TransientFailureRetried ==
    [][\A p \in Procs, fault \in PutFaults :
          ( /\ fault.kind = "transient"
            /\ FinalizeRepo_PutChunk(p, fault) \/ FinalizeRepo_PutManifest(p, fault) )
          => loc'[p].err \notin {"put_chunk", "put_manifest"}]_vars

Count(calls, call) == Cardinality({k \in 1..Len(calls) : calls[k] = call})

\* What C35 says of the calls one PutFile issued for a path that exists or
\* not, under a fault.
PutFileContract(exists, fault) ==
    LET put == PutFile(exists, fault)
        created == Answer("create", exists, fault)
    IN  /\ Head(put.calls) = "create"
        /\ Count(put.calls, "create") = 1
        /\ Count(put.calls, "update") <= 1
        /\ created = "ok" => put.calls = <<"create">> /\ put.ok
        /\ created = "error" => put.calls = <<"create">> /\ ~put.ok
        /\ created = "unprocessable" =>
              /\ SubSeq(put.calls, 1, 2) = <<"create", "get">>
              /\ Answer("get", exists, fault) = "ok" =>
                    put.calls = <<"create", "get", "update">>
              /\ Answer("get", exists, fault) # "ok" =>
                    put.calls = <<"create", "get">> /\ ~put.ok

\* C35: every PutFile of a finalize issues CreateFile first and once; it goes
\* on to GetContents and one UpdateFile only when CreateFile was answered
\* unprocessable-entity, and returns any other error of CreateFile without
\* another call.
C35_PutFileCreateThenUpdate ==
    [][\A p \in Procs, fault \in PutFaults :
          /\ FinalizeRepo_PutChunk(p, fault) /\ loc'[p].err # "read_chunk"
             => PutFileContract(Head(loc[p].list).chunk_index \in remote[loc[p].id].chunks,
                                fault)
          /\ FinalizeRepo_PutManifest(p, fault)
             => PutFileContract(remote[loc[p].id].manifest, fault)]_vars

\* A PutFile found its path in the remote and updated it.
C35_Witness ==
    \E p \in Procs : loc[p].calls = <<"create", "get", "update">>

\* C36: an upload in pending has received_chunks = 0 and received_bytes = 0,
\* and an upload in in_progress has received_chunks >= 1.
C36_StatusMatchesProgress ==
    \A id \in UploadIDs :
       /\ uploads[id].status = "pending" =>
             uploads[id].received_chunks = 0 /\ uploads[id].received_bytes = 0
       /\ uploads[id].status = "in_progress" => uploads[id].received_chunks >= 1

\* The first chunk of a two-chunk upload was accepted: in_progress, one chunk.
C36_Witness ==
    \E id \in UploadIDs :
       /\ uploads[id].status = "in_progress"
       /\ uploads[id].total_chunks = 2
       /\ uploads[id].received_chunks = 1
       /\ accepted[id][0] = 1

\* The smallest element of a set of numbers that is not empty.
Least(S) == CHOOSE x \in S : \A y \in S : x <= y

\* C37: when the legacy service answers a resume for an upload with a chunk
\* missing, next_expected_chunk is the smallest index without an uploaded
\* chunk record.
C37_ResumeNextIsFirstMissing ==
    ( response.op = "resume" /\ response.missing # {} )
    => response.next = Least(response.missing)

\* C38: whenever no chunk request of the legacy service is in flight,
\* chunks_uploaded is the number of uploaded chunk records and bytes_uploaded
\* the sum of their sizes.
C38_LegacyCountersMatchRecords ==
    ( dbUpload.status # "none" /\ \A p \in Procs : handler[p].pc = "idle" )
    => /\ dbUpload.chunks_uploaded = Cardinality(GetUploadedChunks)
       /\ dbUpload.bytes_uploaded =
             SumOver([i \in DOMAIN dbChunks |-> dbChunks[i].chunk_size], DOMAIN dbChunks)

\* C39: while a session is paused, no step turns it into failed and none calls
\* options.onError: only resume() and cancel() take it out of paused.
C39_PauseStaysPaused ==
    [][session.status = "paused" =>
          /\ session'.status \in {"paused", "uploading", "cancelled"}
          /\ session'.status = "uploading" => run'["resume"].pc = "info"
          /\ onError' = onError]_vars

\* The upload() calls that are running.
Running == {f \in HookFiles : items[f].pc = "running"}

\* C40: every id in the active set is the temp id of an upload() call that is
\* running, so an upload that finished, completed or failed, holds no slot and
\* the files behind it can start; and no more than maxConcurrent upload()
\* calls run at a time.
C40_FinishedUploadFreesSlot ==
    /\ activeUploads \subseteq {tempId(f) : f \in Running}
    /\ Cardinality(Running) <= maxConcurrent

TypeOK ==
    /\ \A p \in Procs : pc[p] \in STRING
    /\ \A id \in UploadIDs : uploads[id].status \in Terminal \cup NonTerminal \cup {"none"}

====
